---- MODULE Spec2Model ----
(***************************************************************************)
(* A model of UC2Data.py: the result model (ResultCode, CheckResult), the   *)
(* three validators (check_glob_attr, check_var, check_var_attr), the       *)
(* person-field validator and the rulebook uc2_check.                       *)
(*                                                                          *)
(* Python values are modelled with their runtime type: an attribute value   *)
(* is a record [t |-> "str" | "int" | "float", s |-> its string, n |-> its   *)
(* number]; strings are TLA+ strings (indexed with SubSeq), floats and ints *)
(* are integers.                                                            *)
(* A Python exception is the field exc of an operator's outcome, and ends   *)
(* uc2_check at pc = "raised".                                              *)
(***************************************************************************)
EXTENDS Integers, Sequences, FiniteSets, TLC

VARIABLES
    ds,           \* the loaded dataset: [attrs, variables, dims], read-only
    voc,          \* the controlled vocabularies (class attributes)
    pc,           \* position of uc2_check
    result,       \* the result tree built so far (insertion-ordered dict)
    featuretype,  \* local of uc2_check
    is_iop,       \* local of uc2_check
    is_lto,       \* local of uc2_check
    exc,          \* the exception uc2_check raised, "none" otherwise
    numpy,        \* the installed numpy, by how it treats a dtype object
    crs,          \* two CheckResult objects of a caller
    call,         \* the last call of append with another object as its argument:
                  \* receiver, argument, both as they were
    printed       \* what printCheckResult returned to a caller, a list of lines

vars == <<ds, voc, pc, result, featuretype, is_iop, is_lto, exc, numpy, crs, call, printed>>

-----------------------------------------------------------------------------
(* Bounds of the model *)

\* longest code list a CheckResult of the append specification grows to
MaxCodes == 3
\* array values are drawn from 0..MaxVal
MaxVal == 2
\* the length of the arrays whose order is checked
SortLen == 3
\* the size of the dimensions time, ntime, z and nz of the datasets
DimLen == 2
\* longest vocabulary table (rows of sites.txt)
MaxRows == 2

-----------------------------------------------------------------------------
(* Python strings *)

\* s[a:b] for 0 <= a, b (Python clamps the slice to the string)
Slice(s, a, b) ==
    LET hi == IF b > Len(s) THEN Len(s) ELSE b
    IN  IF a >= hi THEN "" ELSE SubSeq(s, a + 1, hi)

\* s[a:]
SliceFrom(s, a) == Slice(s, a, Len(s))

\* s[i], 0 <= i < len(s)
CharAt(s, i) == SubSeq(s, i + 1, i + 1)

\* a in b, for two strings: substring containment
StrContains(b, a) ==
    \E i \in 0..(Len(b) - Len(a)) : Slice(b, i, i + Len(a)) = a

Digits == {"0", "1", "2", "3", "4", "5", "6", "7", "8", "9"}

DigitVal(c) ==
    CASE c = "0" -> 0 [] c = "1" -> 1 [] c = "2" -> 2 [] c = "3" -> 3
      [] c = "4" -> 4 [] c = "5" -> 5 [] c = "6" -> 6 [] c = "7" -> 7
      [] c = "8" -> 8 [] c = "9" -> 9

AllDigits(s) == \A i \in 0..(Len(s) - 1) : CharAt(s, i) \in Digits

RECURSIVE DecVal(_)
DecVal(s) ==
    IF Len(s) = 0 THEN 0
    ELSE 10 * DecVal(Slice(s, 0, Len(s) - 1)) + DigitVal(CharAt(s, Len(s) - 1))

\* s with its '_' removed
RECURSIVE NoUnderscores(_)
NoUnderscores(s) ==
    IF Len(s) = 0 THEN ""
    ELSE IF CharAt(s, 0) = "_" THEN NoUnderscores(SliceFrom(s, 1))
    ELSE CharAt(s, 0) \o NoUnderscores(SliceFrom(s, 1))

\* digits, with single underscores allowed between two digits
DigitPart(s) ==
    /\ Len(s) > 0
    /\ CharAt(s, 0) \in Digits
    /\ CharAt(s, Len(s) - 1) \in Digits
    /\ \A i \in 0..(Len(s) - 1) :
          \/ CharAt(s, i) \in Digits
          \/ (CharAt(s, i) = "_" /\ CharAt(s, i + 1) \in Digits)

\* int(s): an optional sign, then digits; anything else is a ValueError
PyInt(s) ==
    LET signed == Len(s) > 0 /\ CharAt(s, 0) \in {"-", "+"}
        body   == IF signed THEN SliceFrom(s, 1) ELSE s
    IN  IF ~DigitPart(body) THEN [exc |-> "ValueError", v |-> 0]
        ELSE [exc |-> "none",
              v   |-> IF signed /\ CharAt(s, 0) = "-"
                      THEN 0 - DecVal(NoUnderscores(body))
                      ELSE DecVal(NoUnderscores(body))]

\* s.split(sep), sep one character
RECURSIVE Split(_, _)
Split(s, sep) ==
    IF \A i \in 0..(Len(s) - 1) : CharAt(s, i) # sep THEN <<s>>
    ELSE LET p == CHOOSE i \in 0..(Len(s) - 1) :
                      /\ CharAt(s, i) = sep
                      /\ \A j \in 0..(i - 1) : CharAt(s, j) # sep
         IN  <<Slice(s, 0, p)>> \o Split(SliceFrom(s, p + 1), sep)

-----------------------------------------------------------------------------
(* Regular expressions, as re.fullmatch decides them *)

\* a pattern of literals and [0-9]{n} groups: "d" stands for [0-9]
MatchDigitPattern(pat, s) ==
    /\ Len(s) = Len(pat)
    /\ \A i \in 0..(Len(pat) - 1) :
          IF CharAt(pat, i) = "d" THEN CharAt(s, i) \in Digits
          ELSE CharAt(s, i) = CharAt(pat, i)

\* [0-9]{4}-[0-9]{2}-[0-9]{2} [0-9]{2}:[0-9]{2}:[0-9]{2} \+00
TimestampPattern == "dddd-dd-dd dd:dd:dd +00"

\* seconds since [0-9]{4}-[0-9]{2}-[0-9]{2} [0-9]{2}:[0-9]{2}:[0-9]{2} \+00
\* (the literal part holds no "d")
UnitsPrefix == "seconds since "

MatchTimestamp(s) == MatchDigitPattern(TimestampPattern, s)

MatchUnits(s) ==
    /\ Slice(s, 0, Len(UnitsPrefix)) = UnitsPrefix
    /\ MatchDigitPattern(TimestampPattern, SliceFrom(s, Len(UnitsPrefix)))

Letters ==
    {"A", "B", "C", "D", "E", "F", "G", "H", "I", "J", "K", "L", "M",
     "N", "O", "P", "Q", "R", "S", "T", "U", "V", "W", "X", "Y", "Z",
     "a", "b", "c", "d", "e", "f", "g", "h", "i", "j", "k", "l", "m",
     "n", "o", "p", "q", "r", "s", "t", "u", "v", "w", "x", "y", "z"}

\* ^[A-Za-z0-9\._-]+$
MatchCampaign(s) ==
    /\ Len(s) > 0
    /\ \A i \in 0..(Len(s) - 1) :
          CharAt(s, i) \in Letters \cup Digits \cup {".", "_", "-"}

\* [^@]+@[^@]+\.[^@]+
MatchEmail(s) ==
    \E a \in 1..(Len(s) - 1) :
        /\ CharAt(s, a) = "@"
        /\ \A i \in 0..(Len(s) - 1) : (i # a) => CharAt(s, i) # "@"
        /\ \E p \in (a + 2)..(Len(s) - 2) : CharAt(s, p) = "."

-----------------------------------------------------------------------------
(* ResultCode and CheckResult *)

OK == "ResultCode.OK"
WARNING == "ResultCode.WARNING"
ERROR == "ResultCode.ERROR"
ResultCode == {OK, WARNING, ERROR}

\* CheckResult.__init__
CheckResult(code, message) == [result |-> <<code>>, message |-> <<message>>]

\* CheckResult() with the default arguments
CheckResultDefault == CheckResult(OK, "Test passed.")

\* CheckResult.__bool__
Bool(cr) == ~(\E i \in 1..Len(cr.result) : cr.result[i] = ERROR)

\* the positions of a code list that do not hold OK, in order
RECURSIVE NonOkIdx(_)
NonOkIdx(codes) ==
    IF Len(codes) = 0 THEN <<>>
    ELSE LET n == Len(codes)
             front == NonOkIdx(SubSeq(codes, 1, n - 1))
         IN  IF codes[n] = OK THEN front ELSE Append(front, n)

\* the while loop of append: pop the first OK until none is left
RECURSIVE PopOk(_)
PopOk(cr) ==
    IF \A i \in 1..Len(cr.result) : cr.result[i] # OK THEN cr
    ELSE LET idx == CHOOSE i \in 1..Len(cr.result) :
                        /\ cr.result[i] = OK
                        /\ \A j \in 1..(i - 1) : cr.result[j] # OK
             pop(s) == SubSeq(s, 1, idx - 1) \o SubSeq(s, idx + 1, Len(s))
         IN  PopOk([result |-> pop(cr.result), message |-> pop(cr.message)])

\* value.result == ResultCode.OK: a list compared with an enum member
ListEqualsCode(codes, code) == FALSE

\* append without the while loop: the OK entries of the receiver stay
append_keep_ok(cr, v) ==
    [result |-> cr.result \o v.result, message |-> cr.message \o v.message]

\* CheckResult.append: the receiver afterwards (value is a distinct object)
append(cr, v) ==
    IF ListEqualsCode(v.result, OK) THEN cr
    ELSE LET s == PopOk(cr)
         IN  [result |-> s.result \o v.result, message |-> s.message \o v.message]

\* cr.append(cr): value is the receiver, so the loop pops the OK entries of
\* the one object and += adds to each list what is left of that list
append_self(cr) ==
    IF ListEqualsCode(cr.result, OK) THEN cr
    ELSE LET s == PopOk(cr)
         IN  [result |-> s.result \o s.result, message |-> s.message \o s.message]

\* result.append(v) for each v of a list, in order
RECURSIVE AppendAll(_, _)
AppendAll(cr, list) ==
    IF Len(list) = 0 THEN cr
    ELSE AppendAll(append(cr, Head(list)), Tail(list))

-----------------------------------------------------------------------------
(* Outcomes of a call: a returned CheckResult, or a raised exception *)

Ret(cr) == [exc |-> "none", cr |-> cr]
Raise(e) == [exc |-> e, cr |-> CheckResultDefault]

(* Python values with their runtime type *)
StrV(s) == [t |-> "str", s |-> s, n |-> 0]
IntV(n) == [t |-> "int", s |-> "", n |-> n]
FloatV(n) == [t |-> "float", s |-> "", n |-> n]

\* a == b for two attribute values: a string never equals a number
PyEq(a, b) ==
    IF (a.t = "str") # (b.t = "str") THEN FALSE ELSE a.s = b.s /\ a.n = b.n

(* The allowed_values argument: None, a list, an int or a string *)
NoValues == [kind |-> "none"]
ValueList(items) == [kind |-> "list", items |-> items]
ValueInt(n) == [kind |-> "int", n |-> n]
ValueStr(s) == [kind |-> "str", s |-> s]

\* list(range(lo, hi))
IntRange(lo, hi) == [i \in 1..(hi - lo) |-> IntV(lo + i - 1)]

\* [StrV(s) for s in a list of strings]
StrList(names) == [i \in 1..Len(names) |-> StrV(names[i])]

\* bool(allowed_values)
Truthy(av) ==
    CASE av.kind = "none" -> FALSE
      [] av.kind = "list" -> Len(av.items) > 0
      [] av.kind = "int" -> av.n # 0
      [] av.kind = "str" -> Len(av.s) > 0

\* x in allowed_values: membership in a list, containment in a string; an
\* int is not iterable and a string takes only a string on its left
ValueIn(x, av) ==
    CASE av.kind = "list" ->
            [exc |-> "none", b |-> \E i \in 1..Len(av.items) : PyEq(av.items[i], x)]
      [] av.kind = "str" ->
            IF x.t = "str" THEN [exc |-> "none", b |-> StrContains(av.s, x.s)]
            ELSE [exc |-> "TypeError", b |-> FALSE]
      [] OTHER -> [exc |-> "TypeError", b |-> FALSE]

\* len(allowed_values) for a list or a string
ValuesLen(av) == IF av.kind = "list" THEN Len(av.items) ELSE Len(av.s)

\* str(n) for n >= 0
RECURSIVE NatStr(_)
NatStr(n) ==
    LET d == CHOOSE c \in Digits : DigitVal(c) = n % 10
    IN  IF n < 10 THEN d ELSE NatStr(n \div 10) \o d

\* str(x) of a value (floats of the model are whole: "3.0")
ValStr(x) ==
    LET num == IF x.n < 0 THEN "-" \o NatStr(0 - x.n) ELSE NatStr(x.n)
    IN  CASE x.t = "str" -> x.s
          [] x.t = "int" -> num
          [] x.t = "float" -> num \o ".0"

\* str(allowed_values[0])
FirstValueStr(av) ==
    IF av.kind = "list" THEN ValStr(av.items[1]) ELSE CharAt(av.s, 0)

(* The regex argument *)
RegexTimestamp == "[0-9]{4}-[0-9]{2}-[0-9]{2} [0-9]{2}:[0-9]{2}:[0-9]{2} \\+00"
RegexUnits == "seconds since [0-9]{4}-[0-9]{2}-[0-9]{2} [0-9]{2}:[0-9]{2}:[0-9]{2} \\+00"
RegexCampaign == "^[A-Za-z0-9\\._-]+$"
NoRegex == ""

\* re.fullmatch(regex, s) is not None
FullMatch(regex, s) ==
    CASE regex = RegexTimestamp -> MatchTimestamp(s)
      [] regex = RegexUnits -> MatchUnits(s)
      [] regex = RegexCampaign -> MatchCampaign(s)

(* The allowed_range argument: None, or [lo, hi] written in hundredths so    *)
(* that the lower bound .01 of the time ranges is a whole number             *)
RangeScale == 100
NoRange == <<>>
Range(lo, hi) == <<lo * RangeScale, hi * RangeScale>>
\* [.01, hi]
RangeFromHundredth(hi) == <<1, hi * RangeScale>>

OutsideRange(v, range) ==
    (v * RangeScale < range[1]) \/ (v * RangeScale > range[2])

\* str(allowed_types), str(allowed_range) and str(dims) in a message
ReprOf(what) == "<" \o what \o ">"

StrTypes == {"str"}
IntTypes == {"int"}
FloatTypes == {"float"}

-----------------------------------------------------------------------------
(* UC2Data.check_glob_attr *)

check_glob_attr(attrs, attrname, must_exist, allowed_types, allowed_values, regex, allowed_range) ==
    LET x == attrs[attrname]
        found == ValueIn(x, allowed_values)
        wrong_type ==
            IF allowed_types # {} /\ x.t \notin allowed_types
            THEN <<CheckResult(ERROR,
                       "Global attribute '" \o attrname
                       \o "' has wrong type. Should be one of the following: "
                       \o ReprOf("allowed_types"))>>
            ELSE <<>>
        wrong_value ==
            IF Truthy(allowed_values) /\ ~found.b
            THEN <<CheckResult(ERROR,
                       IF ValuesLen(allowed_values) = 1
                       THEN "Global attribute '" \o attrname
                            \o "' has wrong value. Should be "
                            \o FirstValueStr(allowed_values)
                       ELSE "Global attribute '" \o attrname \o "' has wrong value")>>
            ELSE <<>>
        no_match ==
            IF regex # NoRegex /\ ~FullMatch(regex, x.s)
            THEN <<CheckResult(ERROR,
                       "Global attribute '" \o attrname
                       \o "' does not match regular expression " \o regex)>>
            ELSE <<>>
    IN  IF attrname \notin DOMAIN attrs
        THEN IF must_exist
             THEN Ret(CheckResult(ERROR,
                      "Required global attribute '" \o attrname \o "' not found."))
             ELSE Ret(CheckResultDefault)
        ELSE IF Truthy(allowed_values) /\ found.exc # "none" THEN Raise(found.exc)
        \* re.fullmatch of a value that is no string
        ELSE IF regex # NoRegex /\ x.t # "str" THEN Raise("TypeError")
        \* a string compared with a number
        ELSE IF allowed_range # NoRange /\ x.t = "str" THEN Raise("TypeError")
        ELSE IF allowed_range # NoRange /\ OutsideRange(x.n, allowed_range)
        THEN Ret(CheckResult(ERROR,
                 "Global attribute '" \o attrname \o "' is outside allowed range "
                 \o ReprOf("allowed_range")))
        ELSE Ret(AppendAll(CheckResultDefault, wrong_type \o wrong_value \o no_match))

-----------------------------------------------------------------------------
(* Arrays: a variable's values are nested sequences, one level per          *)
(* dimension; a zero-dimensional variable holds a bare number               *)

RECURSIVE Shape(_, _)
Shape(a, nd) == IF nd = 0 THEN <<>> ELSE <<Len(a)>> \o Shape(a[1], nd - 1)

RECURSIVE Elem(_, _)
Elem(a, idx) == IF Len(idx) = 0 THEN a ELSE Elem(a[Head(idx)], Tail(idx))

MaxOf(S) == CHOOSE m \in S : \A x \in S : x <= m
MinOf(S) == CHOOSE m \in S : \A x \in S : m <= x

\* every index tuple of an array of this shape
IndexSet(shape) ==
    IF Len(shape) = 0 THEN {<<>>}
    ELSE {idx \in [1..Len(shape) -> 1..MaxOf({shape[k] : k \in 1..Len(shape)})] :
             \A k \in 1..Len(shape) : idx[k] <= shape[k]}

Elements(a, nd) == {Elem(a, idx) : idx \in IndexSet(Shape(a, nd))}

\* numpy.sort of a one-dimensional array (insertion of the last element)
RECURSIVE NumpySort(_)
NumpySort(s) ==
    IF Len(s) <= 1 THEN s
    ELSE LET front == NumpySort(SubSeq(s, 1, Len(s) - 1))
             x == s[Len(s)]
             k == Cardinality({i \in 1..Len(front) : front[i] <= x})
         IN  SubSeq(front, 1, k) \o <<x>> \o SubSeq(front, k + 1, Len(front))

\* the least value of a signed integer dtype
IntMin(dtype) ==
    CASE dtype = "int8" -> -128
      [] dtype = "int16" -> -32768
      [] dtype = "int32" -> -2147483647 - 1

\* -x in the arithmetic of a dtype: a float changes its sign, an integer wraps
\* at its width
Neg(x, dtype) ==
    CASE dtype \in {"int8", "int16", "int32"} ->
            IF x = IntMin(dtype) THEN x ELSE 0 - x
      [] dtype = "uint8" -> (256 - x) % 256
      [] OTHER -> 0 - x

Negated(s, dtype) == [i \in 1..Len(s) |-> Neg(s[i], dtype)]

\* the one-dimensional runs of an array along an axis (axis counted from 1)
Fibers(a, nd, axis) ==
    LET shape == Shape(a, nd)
    IN  {[i \in 1..shape[axis] |-> Elem(a, [idx EXCEPT ![axis] = i])] :
            idx \in {j \in IndexSet(shape) : j[axis] = 1}}

\* numpy.array_equal(a, numpy.sort(a, axis))
EqualsSorted(a, nd, axis) ==
    \A f \in Fibers(a, nd, axis) : f = NumpySort(f)

\* numpy.array_equal(a, -numpy.sort(-a, axis))
EqualsAntiSorted(a, nd, axis, dtype) ==
    \A f \in Fibers(a, nd, axis) : f = Negated(NumpySort(Negated(f, dtype)), dtype)

\* tuple.index(name), counted from 1
IndexOf(seq, x) == CHOOSE i \in 1..Len(seq) : seq[i] = x /\ \A j \in 1..(i - 1) : seq[j] # x

InSeq(seq, x) == \E i \in 1..Len(seq) : seq[i] = x

-----------------------------------------------------------------------------
(* numpy's treatment of a dtype object, which differs between releases:      *)
(* bool(dtype) is False where truthiness falls back on len(dtype), and True  *)
(* otherwise; type(dtype) == numpy.dtype is False where each dtype has a     *)
(* class of its own                                                          *)
NumpyBuilds == {"dtype_falsy", "dtype_truthy", "dtype_classes"}

(* The allowed_types argument of check_var and check_var_attr *)
NoTypes == [kind |-> "none", types |-> {}]
TypeList(types) == [kind |-> "list", types |-> types]
OneType(t) == [kind |-> "type", types |-> {t}]
Dtype(t) == [kind |-> "dtype", types |-> {t}]

TypesTruthy(at, np) ==
    CASE at.kind = "none" -> FALSE
      [] at.kind = "list" -> at.types # {}
      [] at.kind = "type" -> TRUE
      [] at.kind = "dtype" -> np # "dtype_falsy"

\* the dtypes of the model; numpy.int and numpy.float are int and float,
\* and the platform-dependent dtype of int is not among them
TimeTypes == {"int16", "int32", "float64"}
ZTypes == {"int8", "int16", "int32", "float16", "float32", "float64"}

-----------------------------------------------------------------------------
(* UC2Data.check_var *)

\* the dims argument as check_var compares it: a list or a string becomes a
\* tuple; () and "" are falsy and switch the comparison off
DimsNone == [kind |-> "none", names |-> <<>>]
DimsTuple(names) == [kind |-> "tuple", names |-> names]
DimsStr(name) == [kind |-> "str", names |-> <<name>>]

DimsTruthy(dims) ==
    CASE dims.kind = "none" -> FALSE
      [] dims.kind = "tuple" -> Len(dims.names) > 0
      [] dims.kind = "str" -> Len(dims.names[1]) > 0

check_var(variables, np, varname, must_exist, allowed_types, allowed_range, dims, must_be_sorted_along, decrease_sort_allowed, fill_allowed) ==
    LET var == variables[varname]
        nd == Len(var.dims)
        wrong_type ==
            IF TypesTruthy(allowed_types, np) /\ var.dtype \notin allowed_types.types
            THEN <<CheckResult(ERROR,
                       "Variable '" \o varname
                       \o "' has wrong type. Should be one of the following: "
                       \o ReprOf("allowed_types"))>>
            ELSE <<>>
        vals == Elements(var.values, nd)
        outside ==
            IF allowed_range # NoRange
               /\ (OutsideRange(MinOf(vals), allowed_range)
                   \/ OutsideRange(MaxOf(vals), allowed_range))
            THEN <<CheckResult(ERROR,
                       "Variable '" \o varname \o "' is outside allowed range"
                       \o ReprOf("allowed_range"))>>
            ELSE <<>>
        wrong_dims ==
            IF DimsTruthy(dims) /\ var.dims # dims.names
            THEN <<CheckResult(ERROR,
                       "Variable '" \o varname \o "' has wrong dimensions. Expected: "
                       \o ReprOf("dims"))>>
            ELSE <<>>
        axis == IndexOf(var.dims, must_be_sorted_along)
        unsorted ==
            IF /\ must_be_sorted_along # ""
               /\ InSeq(var.dims, must_be_sorted_along)
               /\ IF decrease_sort_allowed
                  THEN ~(EqualsSorted(var.values, nd, axis)
                         \/ EqualsAntiSorted(var.values, nd, axis, var.dtype))
                  ELSE ~EqualsSorted(var.values, nd, axis)
            THEN <<CheckResult(ERROR,
                       "Variable '" \o varname \o "' must be sorted along dimension '"
                       \o must_be_sorted_along \o "'")>>
            ELSE <<>>
    IN  IF varname \notin DOMAIN variables
        THEN IF must_exist
             THEN Ret(CheckResult(ERROR,
                      "Required variable '" \o varname \o "' not found."))
             ELSE Ret(CheckResultDefault)
        \* dtype in allowed_types with a dtype object on the right
        ELSE IF allowed_types.kind = "dtype" /\ np = "dtype_classes"
        THEN Raise("TypeError")
        ELSE Ret(AppendAll(CheckResultDefault,
                           wrong_type \o outside \o wrong_dims \o unsorted))

-----------------------------------------------------------------------------
(* UC2Data.check_var_attr *)

check_var_attr(variables, np, varname, attrname, must_exist, allowed_types, allowed_values, regex, must_not_exist) ==
    LET attrs == variables[varname].attrs
        exists == attrname \in DOMAIN attrs
        x == attrs[attrname]
        found == ValueIn(x, allowed_values)
        wrong_type ==
            IF TypesTruthy(allowed_types, np) /\ x.t \notin allowed_types.types
            THEN <<CheckResult(ERROR,
                       "Variable '" \o varname \o "': Required variable attribute '"
                       \o attrname
                       \o "' has wrong type. Should be one of the following: "
                       \o ReprOf("allowed_types"))>>
            ELSE <<>>
        wrong_value ==
            IF Truthy(allowed_values) /\ ~found.b
            THEN <<CheckResult(ERROR,
                       IF ValuesLen(allowed_values) = 1
                       THEN "Variable '" \o varname \o "': Required variable attribute '"
                            \o attrname \o "'  has wrong value. Should be "
                            \o FirstValueStr(allowed_values)
                       ELSE "Variable '" \o varname \o "': Required variable attribute '"
                            \o attrname \o "' has wrong value")>>
            ELSE <<>>
        no_match ==
            IF regex # NoRegex /\ ~FullMatch(regex, x.s)
            THEN <<CheckResult(ERROR,
                       "Global attribute '" \o attrname
                       \o "' does not match regular expression " \o regex)>>
            ELSE <<>>
        \* whether one of the three checks reads the attribute
        reads == \/ TypesTruthy(allowed_types, np)
                 \/ Truthy(allowed_values)
                 \/ regex # NoRegex
    IN  \* self.variables[varname] of a variable the file does not hold
        IF varname \notin DOMAIN variables THEN Raise("KeyError")
        ELSE IF ~exists /\ must_exist
        THEN Ret(CheckResult(ERROR,
                 "Variable '" \o varname \o "': Required variable attribute '"
                 \o attrname \o "' not found."))
        ELSE IF ~exists /\ ~must_not_exist THEN Ret(CheckResultDefault)
        ELSE IF exists /\ must_not_exist
        THEN Ret(CheckResult(ERROR,
                 "Variable '" \o varname \o "' has attribute '" \o attrname
                 \o "' defined. Not allowed."))
        \* absent, not required, and must_not_exist: the checks still run
        ELSE IF ~exists THEN (IF reads THEN Raise("KeyError") ELSE Ret(CheckResultDefault))
        \* type(value) in allowed_types with a dtype object on the right
        ELSE IF TypesTruthy(allowed_types, np) /\ allowed_types.kind = "dtype"
        THEN Raise("TypeError")
        ELSE IF Truthy(allowed_values) /\ found.exc # "none" THEN Raise(found.exc)
        ELSE IF regex # NoRegex /\ x.t # "str" THEN Raise("TypeError")
        ELSE Ret(AppendAll(CheckResultDefault, wrong_type \o wrong_value \o no_match))

-----------------------------------------------------------------------------
(* check_person_field *)

\* the first entry of s that makes the loop return, 0 if none does
FirstBadPerson(s) ==
    LET bad(i) == LET i_s == Split(s[i], ",")
                  IN  \/ Len(i_s) \notin {2, 3}
                      \/ (Len(i_s) = 3 /\ ~MatchEmail(i_s[3]))
    IN  IF \E i \in 1..Len(s) : bad(i)
        THEN CHOOSE i \in 1..Len(s) : bad(i) /\ \A j \in 1..(i - 1) : ~bad(j)
        ELSE 0

check_person_field(string, attrname) ==
    LET s == Split(string, ";")
        k == FirstBadPerson(s)
        i_s == Split(s[k], ",")
    IN  IF k = 0 THEN CheckResultDefault
        ELSE IF Len(i_s) \notin {2, 3}
        THEN CheckResult(ERROR, "Global attribute '" \o attrname
                 \o "': Perons must be given as last_name, first_name[, email]")
        ELSE CheckResult(ERROR, "Global attribute '" \o attrname \o "': "
                 \o i_s[3] \o " is not a valid email address.")

-----------------------------------------------------------------------------
(* The result tree: a dict in insertion order, of CheckResults and of dicts  *)

EmptyDict == [keys |-> <<>>, at |-> <<>>]

Has(d, k) == InSeq(d.keys, k)

\* d[k] = v: a new key goes last, a known key keeps its place
Put(d, k, v) ==
    [keys |-> IF Has(d, k) THEN d.keys ELSE Append(d.keys, k),
     at   |-> (k :> v) @@ d.at]

\* d[k1][k2] = v
Put2(d, k1, k2, v) == Put(d, k1, Put(d.at[k1], k2, v))

\* the assignments  result[path] = <outcome>  of a run of calls, in order,
\* up to the first call that raises
RECURSIVE Assign(_, _)
Assign(tree, calls) ==
    IF Len(calls) = 0 THEN [tree |-> tree, exc |-> "none"]
    ELSE LET c == Head(calls)
         IN  IF c.out.exc # "none" THEN [tree |-> tree, exc |-> c.out.exc]
             ELSE IF Len(c.path) = 1
             THEN Assign(Put(tree, c.path[1], c.out.cr), Tail(calls))
             ELSE Assign(Put2(tree, c.path[1], c.path[2], c.out.cr), Tail(calls))

Call(path, out) == [path |-> path, out |-> out]

-----------------------------------------------------------------------------
(* UC2Data.uc2_check, section by section *)

AllowedLicences ==
    <<"",
      "[UC]2 MOSAIK Licence; see [UC]2 data policy available at www.uc2-program.org/uc2_data_policy.pdf",
      "[UC]2 3DO Licence; see [UC]2 data policy available at www.uc2-program.org/uc2_data_policy.pdf",
      "[UC]2 KliMoPrax Licence; see [UC]2 data policy available at www.uc2-program.org/uc2_data_policy.pdf",
      "[UC]2 UseUClim Licence; see [UC]2 data policy available at www.uc2-program.org/uc2_data_policy.pdf",
      "[UC]2 Restriced Licence; see [UC]2 data policy available at www.uc2-program.org/uc2_data_policy.pdf",
      "[UC]2 Research Licence; see [UC]2 data policy available at www.uc2-program.org/uc2_data_policy.pdf",
      "[UC]2 Open Licence; see [UC]2 data policy available at www.uc2-program.org/uc2_data_policy.pdf">>

VersionValues == IntRange(1, 1000)

FeatureTypes == <<"timeSeries", "timeSeriesProfile", "trajectory">>

\* a required string attribute with no further constraint
GlobStr(name) ==
    Call(<<name>>, check_glob_attr(ds.attrs, name, TRUE, StrTypes, NoValues, NoRegex, NoRange))

\* a required float attribute, with a range or none
GlobFloat(name, range) ==
    Call(<<name>>, check_glob_attr(ds.attrs, name, TRUE, FloatTypes, NoValues, NoRegex, range))

\* the end of uc2_check by an exception
Raised(tree, e) ==
    /\ pc' = "raised"
    /\ exc' = e
    /\ result' = tree

\* the end of a section: on to the next one with the tree as it stands
Goto(tree, next) ==
    /\ pc' = next
    /\ exc' = exc
    /\ result' = tree

\* the end of a run of assignments: by its exception, or on to the next section
Finish(r, next) ==
    IF r.exc # "none" THEN Raised(r.tree, r.exc) ELSE Goto(r.tree, next)

\* lines 80-110: the global attributes up to rotation_angle
CheckGlobalAttrs ==
    /\ pc = "global_attrs"
    /\ Finish(Assign(EmptyDict, <<
                GlobStr("title"),
                Call(<<"data_content">>,
                     check_glob_attr(ds.attrs, "data_content", TRUE, StrTypes,
                         ValueList(StrList(voc.data_contents)), NoRegex, NoRange)),
                GlobStr("source"),
                Call(<<"version">>,
                     check_glob_attr(ds.attrs, "version", TRUE, IntTypes,
                         ValueList(VersionValues), NoRegex, NoRange)),
                Call(<<"Conventions">>,
                     check_glob_attr(ds.attrs, "Conventions", TRUE, StrTypes,
                         ValueList(<<StrV("CF-1.7")>>), NoRegex, NoRange)),
                GlobStr("dependencies"),
                GlobStr("history"),
                GlobStr("references"),
                GlobStr("comment"),
                GlobStr("keywords"),
                Call(<<"licence">>,
                     check_glob_attr(ds.attrs, "licence", TRUE, StrTypes,
                         ValueList(StrList(AllowedLicences)), NoRegex, NoRange)),
                Call(<<"creation_time">>,
                     check_glob_attr(ds.attrs, "creation_time", TRUE, StrTypes,
                         NoValues, RegexTimestamp, NoRange)),
                Call(<<"origin_time">>,
                     check_glob_attr(ds.attrs, "origin_time", TRUE, StrTypes,
                         NoValues, RegexTimestamp, NoRange)),
                GlobFloat("origin_lon", Range(-180, 180)),
                GlobFloat("origin_lat", Range(-90, 90)),
                GlobFloat("origin_x", NoRange),
                GlobFloat("origin_y", NoRange),
                GlobFloat("rotation_angle", Range(0, 360))>>),
              "feature_type")
    /\ UNCHANGED <<ds, voc, numpy, featuretype, is_iop, is_lto, crs, call, printed>>

\* featureType checked without the return: uc2_check goes on whatever the result
CheckFeatureTypeGoesOn ==
    /\ pc = "feature_type"
    /\ IF "featureType" \in DOMAIN ds.attrs
       THEN /\ result' = Put(result, "featureType",
                          check_glob_attr(ds.attrs, "featureType", FALSE, StrTypes,
                              ValueList(StrList(FeatureTypes)), NoRegex, NoRange).cr)
            /\ featuretype' = ds.attrs["featureType"].s
       ELSE /\ featuretype' = "None"
            /\ result' = result
    /\ pc' = "origin"
    /\ UNCHANGED <<ds, voc, numpy, is_iop, is_lto, exc, crs, call, printed>>

\* lines 114-122: featureType, and the one early return
CheckFeatureType ==
    /\ pc = "feature_type"
    /\ IF "featureType" \in DOMAIN ds.attrs
       THEN \E out \in {check_glob_attr(ds.attrs, "featureType", FALSE, StrTypes,
                             ValueList(StrList(FeatureTypes)), NoRegex, NoRange)} :
                /\ result' = Put(result, "featureType", out.cr)
                /\ IF ~Bool(out.cr)
                   THEN pc' = "done" /\ featuretype' = featuretype
                   ELSE pc' = "origin" /\ featuretype' = ds.attrs["featureType"].s
       ELSE /\ featuretype' = "None"
            /\ pc' = "origin"
            /\ result' = result
    /\ UNCHANGED <<ds, voc, numpy, is_iop, is_lto, exc, crs, call, printed>>

\* list.index(x), counted from 0, a ValueError when x is not in the list
ListIndex(list, x) ==
    IF InSeq(list, x) THEN [exc |-> "none", i |-> IndexOf(list, x) - 1]
    ELSE [exc |-> "ValueError", i |-> 0]

\* the cross-check as a comparison of the two positions
SiteMismatchByIndex(locations, sites, site, location) ==
    ListIndex(sites, site).i # ListIndex(locations, location).i

\* lines 129-134: whether the site's location is another than the file's
SiteMismatch(locations, sites, site, location) ==
    locations[ListIndex(sites, site).i + 1] # location

\* lines 138-139: whether institution and acronym sit at different places
InstitutionMismatch(institutions, acronyms, institution, acronym) ==
    ListIndex(institutions, institution).i # ListIndex(acronyms, acronym).i

\* the two results of a cross-check, each with the same ERROR appended
FlagBoth(tree, k1, k2, message) ==
    Put(Put(tree, k1, append(tree.at[k1], CheckResult(ERROR, message))),
        k2, append(tree.at[k2], CheckResult(ERROR, message)))

\* lines 136-143: institution and acronym, and their cross-check
CheckInstitution(tree) ==
    \E r \in {Assign(tree, <<
                 Call(<<"institution">>,
                      check_glob_attr(ds.attrs, "institution", TRUE, StrTypes,
                          ValueList(StrList(voc.institutions)), NoRegex, NoRange)),
                 Call(<<"acronym">>,
                      check_glob_attr(ds.attrs, "acronym", TRUE, StrTypes,
                          ValueList(StrList(voc.acronyms)), NoRegex, NoRange))>>)} :
        LET cross == Bool(r.tree.at["institution"]) /\ Bool(r.tree.at["acronym"])
            institution == ds.attrs["institution"].s
            acronym == ds.attrs["acronym"].s
        IN  IF r.exc # "none" THEN Raised(r.tree, r.exc)
            ELSE IF cross /\ ListIndex(voc.institutions, institution).exc # "none"
            THEN Raised(r.tree, ListIndex(voc.institutions, institution).exc)
            ELSE IF cross /\ ListIndex(voc.acronyms, acronym).exc # "none"
            THEN Raised(r.tree, ListIndex(voc.acronyms, acronym).exc)
            ELSE IF cross /\ InstitutionMismatch(voc.institutions, voc.acronyms,
                                                 institution, acronym)
            THEN Goto(FlagBoth(r.tree, "institution", "acronym",
                          "institution '" \o institution \o "' does not match acronym '"
                          \o acronym \o "'"),
                      "persons")
            ELSE Goto(r.tree, "persons")

\* lines 125-143: origin_z, location and site, institution and acronym
CheckOrigin ==
    /\ pc = "origin"
    /\ \E r \in {Assign(result, <<
                 Call(<<"origin_z">>,
                      check_glob_attr(ds.attrs, "origin_z", TRUE, FloatTypes,
                          IF featuretype # "None" THEN ValueInt(0) ELSE NoValues,
                          NoRegex, NoRange)),
                 Call(<<"location">>,
                      check_glob_attr(ds.attrs, "location", TRUE, StrTypes,
                          ValueList(StrList(voc.locations)), NoRegex, NoRange)),
                 Call(<<"site">>,
                      check_glob_attr(ds.attrs, "site", TRUE, StrTypes,
                          ValueList(StrList(voc.sites)), NoRegex, NoRange))>>)} :
         LET cross == Bool(r.tree.at["location"]) /\ Bool(r.tree.at["site"])
             site == ds.attrs["site"].s
             location == ds.attrs["location"].s
         IN  IF r.exc # "none" THEN Raised(r.tree, r.exc)
             ELSE IF cross /\ ListIndex(voc.sites, site).exc # "none"
             THEN Raised(r.tree, ListIndex(voc.sites, site).exc)
             ELSE IF cross /\ SiteMismatch(voc.locations, voc.sites, site, location)
             THEN CheckInstitution(FlagBoth(r.tree, "site", "location",
                          "site '" \o site \o "' does not match location '"
                          \o location \o "'"))
             ELSE CheckInstitution(r.tree)
    /\ UNCHANGED <<ds, voc, numpy, featuretype, is_iop, is_lto, crs, call, printed>>

\* lines 147-152: the persons of an attribute that passed its own check
WithPersons(cr, checked, string, attrname) ==
    IF Bool(cr) /\ checked THEN append(cr, check_person_field(string, attrname))
    ELSE cr

\* lines 145-152: author and contact_person
CheckPersons ==
    /\ pc = "persons"
    /\ result' =
         Put(Put(result, "author",
                 WithPersons(check_glob_attr(ds.attrs, "author", TRUE, StrTypes,
                                 NoValues, NoRegex, NoRange).cr,
                             ds.attrs["author"].s # "",
                             ds.attrs["author"].s, "author")),
             "contact_person",
             WithPersons(check_glob_attr(ds.attrs, "contact_person", TRUE, StrTypes,
                             NoValues, NoRegex, NoRange).cr,
                         TRUE,
                         ds.attrs["contact_person"].s, "contact_person"))
    /\ pc' = "campaign"
    /\ UNCHANGED <<ds, voc, numpy, featuretype, is_iop, is_lto, exc, crs, call, printed>>

\* lines 160 and 165: the length test, and int() of the rest only if it passes
BadCampaignNumber(campaign, prefix_len) ==
    IF Len(campaign) # prefix_len + 2 THEN [exc |-> "none", b |-> TRUE]
    ELSE IF PyInt(SliceFrom(campaign, prefix_len)).exc # "none"
    THEN [exc |-> "ValueError", b |-> FALSE]
    ELSE [exc |-> "none", b |-> PyInt(SliceFrom(campaign, prefix_len)).v \notin 1..99]

\* lines 154-167: campaign, is_iop and is_lto
CheckCampaign ==
    /\ pc = "campaign"
    /\ \E out \in {check_glob_attr(ds.attrs, "campaign", TRUE, StrTypes, NoValues,
                       RegexCampaign, NoRange)} :
         LET campaign == ds.attrs["campaign"].s
             iop == Bool(out.cr) /\ Slice(campaign, 0, 3) = "IOP"
             lto == Bool(out.cr) /\ ~iop /\ Slice(campaign, 0, 4) \in {"VALR", "VALM"}
         IN  IF out.exc # "none"
             THEN Raised(result, out.exc) /\ UNCHANGED <<is_iop, is_lto>>
             ELSE /\ is_iop' = iop
                  /\ is_lto' = lto
                  /\ \E bad \in {IF iop THEN BadCampaignNumber(campaign, 3)
                                 ELSE IF lto THEN BadCampaignNumber(campaign, 4)
                                 ELSE [exc |-> "none", b |-> FALSE]} :
                       IF bad.exc # "none"
                       THEN Raised(Put(result, "campaign", out.cr), bad.exc)
                       ELSE IF iop /\ bad.b
                       THEN Goto(Put(result, "campaign", append(out.cr, CheckResult(ERROR,
                                     "Global attribute 'campaign': If IOP then string must be IOPxx"))),
                                 "dims_vrs")
                       ELSE IF lto /\ bad.b
                       THEN Goto(Put(result, "campaign", append(out.cr, CheckResult(ERROR,
                                     "Global attribute 'campaign': If VALM/VALR then string must be VALMxx/VALRxx"))),
                                 "dims_vrs")
                       ELSE Goto(Put(result, "campaign", out.cr), "dims_vrs")
    /\ UNCHANGED <<ds, voc, numpy, featuretype, crs, call, printed>>

-----------------------------------------------------------------------------
(* Indexing and comparing variables *)

\* var[0]: an IndexError for a zero-dimensional variable
Index0(var) ==
    IF Len(var.dims) = 0 THEN [exc |-> "IndexError", dims |-> <<>>, values |-> 0]
    ELSE [exc |-> "none", dims |-> Tail(var.dims), values |-> var.values[1]]

\* var[0, :, k]: an IndexError for fewer than three dimensions, and for a
\* third dimension of k elements or fewer
Index0AllK(var, k) ==
    LET nd == Len(var.dims)
    IN  IF nd < 3 \/ Shape(var.values, nd)[3] <= k
        THEN [exc |-> "IndexError", dims |-> <<>>, values |-> 0]
        ELSE [exc |-> "none",
              dims |-> <<var.dims[2]>> \o SubSeq(var.dims, 4, nd),
              values |-> [j \in 1..Len(var.values[1]) |-> var.values[1][j][k + 1]]]

\* xarray's Variable.equals: the same dimensions and the same values
VariableEquals(a, b) == a.dims = b.dims /\ a.values = b.values

\* numpy broadcasting of two shapes, aligned at their last dimension
Broadcastable(s1, s2) ==
    \A k \in 0..(MinOf({Len(s1), Len(s2)}) - 1) :
        LET d1 == s1[Len(s1) - k]
            d2 == s2[Len(s2) - k]
        IN  d1 = d2 \/ d1 = 1 \/ d2 = 1

BroadcastShape(s1, s2) ==
    LET n == MaxOf({Len(s1), Len(s2)})
        dim(s, i) == IF i <= n - Len(s) THEN 1 ELSE s[i - (n - Len(s))]
    IN  [i \in 1..n |-> MaxOf({dim(s1, i), dim(s2, i)})]

\* the index into an operand of shape s for an index of the broadcast result
Project(idx, s) ==
    [i \in 1..Len(s) |-> IF s[i] = 1 THEN 1 ELSE idx[i + (Len(idx) - Len(s))]]

Abs(n) == IF n < 0 THEN 0 - n ELSE n

\* numpy.allclose(a, b) for b = twice_b / 2: |a - b| <= 1e-8 + 1e-5 * |b|,
\* both sides multiplied by 2e8
Close(a, twice_b) == 100000000 * Abs(2 * a - twice_b) <= 2 + 1000 * Abs(twice_b)

\* numpy.allclose(z, lower + (upper - lower) * 0.5, equal_nan=True) of whole
\* numbers, z of nz dimensions, lower and upper of nb
AllCloseToMiddle(z, nz, lower, upper, nb) ==
    LET s1 == Shape(z, nz)
        s2 == Shape(lower, nb)
    IN  IF ~Broadcastable(s1, s2) THEN [exc |-> "ValueError", b |-> FALSE]
        ELSE [exc |-> "none",
              b |-> \A idx \in IndexSet(BroadcastShape(s1, s2)) :
                       Close(Elem(z, Project(idx, s1)),
                             Elem(lower, Project(idx, s2)) + Elem(upper, Project(idx, s2)))]

\* calendar.monthrange(year, month)[1]
MonthRange(year, month) ==
    LET leap == year % 4 = 0 /\ (year % 100 # 0 \/ year % 400 = 0)
    IN  IF month \notin 1..12 THEN [exc |-> "IllegalMonthError", ndays |-> 0]
        ELSE [exc |-> "none",
              ndays |-> IF month = 2 THEN (IF leap THEN 29 ELSE 28)
                        ELSE IF month \in {4, 6, 9, 11} THEN 30 ELSE 31]

-----------------------------------------------------------------------------
(* uc2_check: dimensions and variables *)

VarAttrStr(varname, attrname, literal) ==
    Call(<<varname, attrname>>,
         check_var_attr(ds.variables, numpy, varname, attrname, TRUE, OneType("str"),
                        ValueStr(literal), NoRegex, FALSE))

\* lines 174-187: dimension nv and variable vrs
CheckDimsVrs ==
    /\ pc = "dims_vrs"
    /\ \E v \in {check_var(ds.variables, numpy, "vrs", TRUE, NoTypes, NoRange,
                           DimsTuple(<<>>), "", TRUE, TRUE)} :
       \E t1 \in {Put2(Put(IF "nv" \in DOMAIN ds.dims /\ ds.dims["nv"] # 2
                           THEN Put(result, "nv_is_2", CheckResult(ERROR,
                                        "Dimension 'nv' must have size of 2."))
                           ELSE result,
                           "vrs", EmptyDict),
                       "vrs", "variable", v.cr)} :
         IF ~Bool(v.cr) THEN Goto(t1, "time")
         ELSE Finish(Assign(t1, <<
                    VarAttrStr("vrs", "long_name", "vertical reference system"),
                    VarAttrStr("vrs", "system_name", "DHHN2016"),
                    Call(<<"vrs", "standard_name">>,
                         check_var_attr(ds.variables, numpy, "vrs", "standard_name",
                             FALSE, NoTypes, NoValues, NoRegex, TRUE))>>),
                     "time")
    /\ UNCHANGED <<ds, voc, numpy, featuretype, is_iop, is_lto, crs, call, printed>>

\* the time dimensions, by a selection that knows no trajectory
TimeTemplateNoTrajectory(ft) ==
    CASE ft \in {"timeSeries", "timeSeriesProfile"} ->
            [exc |-> "none", time_dims |-> DimsTuple(<<"station", "ntime">>),
             time_bounds_dims |-> DimsTuple(<<"station", "ntime", "nv">>),
             time_dim_name |-> "ntime"]
      [] ft = "None" ->
            [exc |-> "none", time_dims |-> DimsStr("time"),
             time_bounds_dims |-> DimsTuple(<<"time", "nv">>),
             time_dim_name |-> "time"]
      [] OTHER ->
            [exc |-> "Exception", time_dims |-> DimsNone,
             time_bounds_dims |-> DimsNone, time_dim_name |-> ""]

\* lines 189-202: the time dimensions a feature type asks for
TimeTemplate(ft) ==
    CASE ft \in {"timeSeries", "timeSeriesProfile"} ->
            [exc |-> "none", time_dims |-> DimsTuple(<<"station", "ntime">>),
             time_bounds_dims |-> DimsTuple(<<"station", "ntime", "nv">>),
             time_dim_name |-> "ntime"]
      [] ft = "trajectory" ->
            [exc |-> "none", time_dims |-> DimsTuple(<<"trag", "ntime">>),
             time_bounds_dims |-> DimsTuple(<<"traj", "ntime", "nv">>),
             time_dim_name |-> "ntime"]
      [] ft = "None" ->
            [exc |-> "none", time_dims |-> DimsStr("time"),
             time_bounds_dims |-> DimsTuple(<<"time", "nv">>),
             time_dim_name |-> "time"]
      [] OTHER ->
            [exc |-> "Exception", time_dims |-> DimsNone,
             time_bounds_dims |-> DimsNone, time_dim_name |-> ""]

\* lines 204-209: the range of time for a campaign
TimeRange(iop, lto, origin_time_ok, origin_time) ==
    IF iop THEN [exc |-> "none", range |-> RangeFromHundredth(86400)]
    ELSE IF lto /\ origin_time_ok
    THEN \* int() of digits the regex has matched cannot fail
         LET m == MonthRange(PyInt(Slice(origin_time, 0, 4)).v,
                             PyInt(Slice(origin_time, 5, 7)).v)
         IN  [exc |-> m.exc,
              range |-> IF m.exc # "none" THEN NoRange
                        ELSE RangeFromHundredth(m.ndays * 24 * 60 * 60)]
    ELSE [exc |-> "none", range |-> NoRange]

\* lines 228-231: origin_time against the units of time
TimeOrigin(tree) ==
    IF /\ Bool(tree.at["origin_time"])
       /\ Bool(tree.at["time"].at["units"])
       /\ ds.attrs["origin_time"].s # SliceFrom(ds.variables["time"].attrs["units"].s, 14)
    THEN Put2(tree, "time", "origin_time", CheckResult(ERROR,
             "Global attribute 'origin_time' does not match units of variable 'time'."))
    ELSE tree

\* lines 189-231: variable time and its attributes
CheckTime ==
    /\ pc = "time"
    /\ \E tpl \in {TimeTemplate(featuretype)} :
       \E rng \in {TimeRange(is_iop, is_lto, Bool(result.at["origin_time"]),
                             ds.attrs["origin_time"].s)} :
         IF tpl.exc # "none" THEN Raised(result, tpl.exc)
         ELSE IF rng.exc # "none" THEN Raised(result, rng.exc)
         ELSE \E v \in {check_var(ds.variables, numpy, "time", TRUE,
                                  TypeList(TimeTypes), rng.range, tpl.time_dims,
                                  tpl.time_dim_name, FALSE, featuretype # "None")} :
              \E t1 \in {Put2(Put(result, "time", EmptyDict), "time", "variable", v.cr)} :
                IF ~Bool(v.cr) THEN Goto(t1, "time_bounds")
                ELSE \E r \in {Assign(t1, <<
                         VarAttrStr("time", "long_name", "time"),
                         VarAttrStr("time", "standard_name", "time"),
                         VarAttrStr("time", "calendar", "proleptic_gregorian"),
                         VarAttrStr("time", "axis", "T"),
                         Call(<<"time", "fill_values">>,
                              check_var_attr(ds.variables, numpy, "time", "_FillValue",
                                  FALSE, Dtype(ds.variables["time"].dtype), NoValues,
                                  NoRegex, featuretype = "None")),
                         Call(<<"time", "units">>,
                              check_var_attr(ds.variables, numpy, "time", "units", TRUE,
                                  OneType("str"), NoValues, RegexUnits, FALSE))>>)} :
                       IF r.exc # "none" THEN Raised(r.tree, r.exc)
                       ELSE Goto(TimeOrigin(r.tree), "time_bounds")
    /\ UNCHANGED <<ds, voc, numpy, featuretype, is_iop, is_lto, crs, call, printed>>

\* line 238: time[0].equals(time_bounds[0, :, 1])
TimeEqualsBounds(time, time_bounds) ==
    LET a == Index0(time)
        b == Index0AllK(time_bounds, 1)
    IN  IF a.exc # "none" THEN [exc |-> a.exc, b |-> FALSE]
        ELSE IF b.exc # "none" THEN [exc |-> b.exc, b |-> FALSE]
        ELSE [exc |-> "none", b |-> VariableEquals(a, b)]

\* lines 242-243: no attribute is allowed on a bounds variable
NoAttributes(tree, varname) ==
    IF DOMAIN ds.variables[varname].attrs # {}
    THEN Put2(tree, varname, "attributes", CheckResult(ERROR,
             "Variable '" \o varname \o "' must not have any attributes."))
    ELSE tree

\* lines 235-246 and 282-296: the bounds variable of an axis that passed, eq
\* the comparison of the bounds with the axis
CheckBounds(tree, axis, bounds, dims, eq, message, next) ==
    IF ~Bool(tree.at[axis].at["variable"])
    THEN Goto(Put2(tree, bounds, "variable", CheckResult(ERROR,
                  "Cannot check variable '" \o bounds
                  \o "' because of error in variable '" \o axis \o "'")),
              next)
    ELSE \E v \in {check_var(ds.variables, numpy, bounds, TRUE,
                             Dtype(ds.variables[axis].dtype), NoRange, dims,
                             "", TRUE, TRUE)} :
           IF v.exc # "none" THEN Raised(tree, v.exc)
           ELSE IF eq.exc # "none"
           THEN Raised(Put2(tree, bounds, "variable", v.cr), eq.exc)
           ELSE Goto(NoAttributes(Put2(tree, bounds, "variable",
                                       IF ~eq.b
                                       THEN append(v.cr, CheckResult(ERROR, message))
                                       ELSE v.cr),
                                  bounds),
                     next)

\* lines 232-246: variable time_bounds and the bounds attribute of time
CheckTimeBounds ==
    /\ pc = "time_bounds"
    /\ \E t0 \in {Put(result, "time_bounds", EmptyDict)} :
         IF "time_bounds" \in DOMAIN ds.variables
         THEN \E b \in {check_var_attr(ds.variables, numpy, "time", "bounds", TRUE,
                            OneType("str"), ValueStr("time_bounds"), NoRegex, FALSE)} :
                IF b.exc # "none" THEN Raised(t0, b.exc)
                ELSE CheckBounds(Put2(t0, "time", "bounds", b.cr),
                                 "time", "time_bounds",
                                 TimeTemplate(featuretype).time_bounds_dims,
                                 TimeEqualsBounds(ds.variables["time"],
                                                  ds.variables["time_bounds"]),
                                 "second column of 'time_bounds' must equal data of variable 'time'",
                                 "z")
         ELSE \E b \in {check_var_attr(ds.variables, numpy, "time", "bounds", FALSE,
                            NoTypes, NoValues, NoRegex, TRUE)} :
                IF b.exc # "none" THEN Raised(t0, b.exc)
                ELSE Goto(Put2(t0, "time", "bounds", b.cr), "z")
    /\ UNCHANGED <<ds, voc, numpy, featuretype, is_iop, is_lto, crs, call, printed>>

\* lines 248-264: the z dimensions a feature type asks for
ZTemplate(ft) ==
    CASE ft = "None" ->
            [exc |-> "none", z_dims |-> DimsStr("z"),
             z_bounds_dims |-> DimsTuple(<<"z", "nv">>), must_be_sorted_along |-> "z"]
      [] ft = "timeSeries" ->
            [exc |-> "none", z_dims |-> DimsStr("station"),
             z_bounds_dims |-> DimsTuple(<<"station", "nv">>), must_be_sorted_along |-> ""]
      [] ft = "timeSeriesProfile" ->
            [exc |-> "none", z_dims |-> DimsTuple(<<"station", "ntime", "nz">>),
             z_bounds_dims |-> DimsTuple(<<"station", "ntime", "nz", "nv">>),
             must_be_sorted_along |-> "nz"]
      [] ft = "trajectory" ->
            [exc |-> "none", z_dims |-> DimsTuple(<<"traj", "ntime">>),
             z_bounds_dims |-> DimsTuple(<<"traj", "ntime", "nv">>),
             must_be_sorted_along |-> ""]
      [] OTHER ->
            [exc |-> "Exception", z_dims |-> DimsNone, z_bounds_dims |-> DimsNone,
             must_be_sorted_along |-> ""]

\* lines 275-278: standard_name of z, by the value of origin_z
ZStandardName(variables, np, origin_z) ==
    check_var_attr(variables, np, "z", "standard_name", origin_z = 0, OneType("str"),
                   ValueStr("height_above_mean_sea_level"), NoRegex, origin_z # 0)

\* lines 248-278: variable z and its attributes
CheckZ ==
    /\ pc = "z"
    /\ \E tpl \in {ZTemplate(featuretype)} :
         IF tpl.exc # "none" THEN Raised(result, tpl.exc)
         ELSE Finish(Assign(Put2(Put(result, "z", EmptyDict), "z", "variable",
                                 check_var(ds.variables, numpy, "z", TRUE,
                                     TypeList(ZTypes), NoRange, tpl.z_dims,
                                     tpl.must_be_sorted_along, TRUE,
                                     featuretype # "None").cr),
                            <<VarAttrStr("z", "long_name", "height above origin"),
                              VarAttrStr("z", "axis", "Z"),
                              VarAttrStr("z", "positive", "up")>>
                            \o (IF Bool(result.at["origin_z"])
                                THEN <<Call(<<"z", "standard_name">>,
                                            ZStandardName(ds.variables, numpy,
                                                          ds.attrs["origin_z"].n))>>
                                ELSE <<>>)),
                     "z_bounds")
    /\ UNCHANGED <<ds, voc, numpy, featuretype, is_iop, is_lto, crs, call, printed>>

\* lines 285-288: z[0] against the middle of z_bounds[0, :, 0] and [0, :, 1]
ZInMiddle(z, z_bounds) ==
    LET lower == Index0AllK(z_bounds, 0)
        upper == Index0AllK(z_bounds, 1)
        z0 == Index0(z)
        close == AllCloseToMiddle(z0.values, Len(z0.dims), lower.values, upper.values,
                                  Len(lower.dims))
    IN  IF lower.exc # "none" THEN [exc |-> lower.exc, b |-> FALSE]
        ELSE IF upper.exc # "none" THEN [exc |-> upper.exc, b |-> FALSE]
        ELSE IF z0.exc # "none" THEN [exc |-> z0.exc, b |-> FALSE]
        ELSE close

\* lines 279-296: variable z_bounds and the bounds attribute of z
CheckZBounds ==
    /\ pc = "z_bounds"
    /\ \E t0 \in {Put(result, "z_bounds", EmptyDict)} :
         IF "z_bounds" \in DOMAIN ds.variables
         THEN \E b \in {check_var_attr(ds.variables, numpy, "z", "bounds", TRUE,
                            OneType("str"), ValueStr("z_bounds"), NoRegex, FALSE)} :
                IF b.exc # "none" THEN Raised(t0, b.exc)
                ELSE CheckBounds(Put2(t0, "z", "bounds", b.cr),
                                 "z", "z_bounds",
                                 ZTemplate(featuretype).z_bounds_dims,
                                 ZInMiddle(ds.variables["z"], ds.variables["z_bounds"]),
                                 "values of z must be in the middle between z_bounds.",
                                 "station_h")
         ELSE \E b \in {check_var_attr(ds.variables, numpy, "z", "bounds", FALSE,
                            NoTypes, NoValues, NoRegex, TRUE)} :
                IF b.exc # "none" THEN Raised(t0, b.exc)
                ELSE Goto(Put2(t0, "z", "bounds", b.cr), "station_h")
    /\ UNCHANGED <<ds, voc, numpy, featuretype, is_iop, is_lto, crs, call, printed>>

\* lines 298-318: variable station_h, and the return of the tree
CheckStationH ==
    /\ pc = "station_h"
    /\ result' =
         IF featuretype \in {"timeSeries", "timeSeriesProfile"}
         THEN Put(result, "station_h",
                  check_var(ds.variables, numpy, "station_h", TRUE, TypeList(ZTypes),
                            NoRange, DimsStr("station"), "", TRUE, TRUE).cr)
         ELSE result
    /\ pc' = "done"
    /\ UNCHANGED <<ds, voc, numpy, featuretype, is_iop, is_lto, exc, crs, call, printed>>

-----------------------------------------------------------------------------
(* The datasets and vocabularies the checks are run on *)

With(f, k, v) == (k :> v) @@ f
Without(f, k) == [n \in DOMAIN f \ {k} |-> f[n]]

BaseVoc ==
    [data_contents |-> <<"airmeteo", "ta">>,
     institutions  |-> <<"Freie Universitaet Berlin", "Deutscher Wetterdienst">>,
     acronyms      |-> <<"FUBmeteo", "DWD">>,
     locations     |-> <<"Berlin", "Hamburg">>,
     sites         |-> <<"Campus1", "Campus2">>]

GoodTime == "2018-02-01 00:00:00 +00"

\* the global attributes of a file that passes, without featureType
BaseAttrs ==
    [title |-> StrV("t"), data_content |-> StrV("airmeteo"), source |-> StrV("s"),
     version |-> IntV(1), Conventions |-> StrV("CF-1.7"), dependencies |-> StrV(""),
     history |-> StrV(""), references |-> StrV(""), comment |-> StrV(""),
     keywords |-> StrV(""), licence |-> StrV(""), creation_time |-> StrV(GoodTime),
     origin_time |-> StrV(GoodTime), origin_lon |-> FloatV(13),
     origin_lat |-> FloatV(52), origin_x |-> FloatV(0), origin_y |-> FloatV(0),
     rotation_angle |-> FloatV(0), origin_z |-> FloatV(0), location |-> StrV("Berlin"),
     site |-> StrV("Campus1"), institution |-> StrV("Deutscher Wetterdienst"),
     acronym |-> StrV("DWD"), author |-> StrV("Doe, John"),
     contact_person |-> StrV("Doe, John, j@d.e"), campaign |-> StrV("IOP01")]

FeatureChoices == {"None", "timeSeries", "timeSeriesProfile", "trajectory"}

AttrsOf(ft) ==
    IF ft = "None" THEN BaseAttrs ELSE With(BaseAttrs, "featureType", StrV(ft))

Values == 0..MaxVal

\* the size of a dimension in the datasets
SizeOf(dim) ==
    CASE dim \in {"station", "traj", "trag"} -> 1
      [] dim = "nv" -> 2
      [] OTHER -> DimLen

\* every array of a shape
RECURSIVE ArraysOf(_)
ArraysOf(shape) ==
    IF Len(shape) = 0 THEN Values
    ELSE [1..shape[1] -> ArraysOf(Tail(shape))]

ShapeOf(dims) == [i \in 1..Len(dims) |-> SizeOf(dims[i])]

\* the array of a shape that counts 1, 2, ... along its last dimension
RECURSIVE Counting(_)
Counting(shape) ==
    IF Len(shape) = 0 THEN 1
    ELSE IF Len(shape) = 1 THEN [i \in 1..shape[1] |-> i]
    ELSE [i \in 1..shape[1] |-> Counting(Tail(shape))]

\* bounds around Counting, of a shape whose last dimension is nv: the
\* pairs (i - 1, i + 1)
RECURSIVE CountingBounds(_)
CountingBounds(shape) ==
    IF Len(shape) = 0 THEN 1
    ELSE IF Len(shape) = 1 THEN [k \in 1..shape[1] |-> IF k = 1 THEN 0 ELSE 2]
    ELSE IF Len(shape) = 2
    THEN [i \in 1..shape[1] |-> [k \in 1..shape[2] |-> IF k = 1 THEN i - 1 ELSE i + 1]]
    ELSE [i \in 1..shape[1] |-> CountingBounds(Tail(shape))]

\* bounds whose upper column is Counting: the pairs (i, i)
RECURSIVE EndBounds(_)
EndBounds(shape) ==
    IF Len(shape) = 0 THEN 1
    ELSE IF Len(shape) = 1 THEN [k \in 1..shape[1] |-> 1]
    ELSE IF Len(shape) = 2 THEN [i \in 1..shape[1] |-> [k \in 1..shape[2] |-> i]]
    ELSE [i \in 1..shape[1] |-> EndBounds(Tail(shape))]

NoAttrs == [n \in {} |-> StrV("")]

Var(dtype, dims, values, attrs) ==
    [dtype |-> dtype, dims |-> dims, values |-> values, attrs |-> attrs]

GoodUnits == UnitsPrefix \o GoodTime

TimeAttrs ==
    [long_name |-> StrV("time"), standard_name |-> StrV("time"),
     calendar |-> StrV("proleptic_gregorian"), axis |-> StrV("T"),
     units |-> StrV(GoodUnits)]

ZAttrs ==
    [long_name |-> StrV("height above origin"), axis |-> StrV("Z"),
     positive |-> StrV("up"), standard_name |-> StrV("height_above_mean_sea_level")]

VrsAttrs ==
    [long_name |-> StrV("vertical reference system"), system_name |-> StrV("DHHN2016")]

\* the dimensions the standard gives time and z, as tuples of names
TimeDimsOf(ft) ==
    CASE ft = "None" -> <<"time">>
      [] ft = "trajectory" -> <<"trag", "ntime">>
      [] OTHER -> <<"station", "ntime">>

TimeBoundsDimsOf(ft) ==
    CASE ft = "None" -> <<"time", "nv">>
      [] ft = "trajectory" -> <<"traj", "ntime", "nv">>
      [] OTHER -> <<"station", "ntime", "nv">>

ZDimsOf(ft) ==
    CASE ft = "None" -> <<"z">>
      [] ft = "timeSeries" -> <<"station">>
      [] ft = "timeSeriesProfile" -> <<"station", "ntime", "nz">>
      [] ft = "trajectory" -> <<"traj", "ntime">>

ZBoundsDimsOf(ft) == Append(ZDimsOf(ft), "nv")

\* the variables of a file that passes: vrs, time, z and, for the station
\* feature types, station_h; no bounds variables
BaseVars(ft) ==
    LET core == [vrs  |-> Var("int32", <<>>, 0, VrsAttrs),
                 time |-> Var("float64", TimeDimsOf(ft),
                              Counting(ShapeOf(TimeDimsOf(ft))), TimeAttrs),
                 z    |-> Var("float64", ZDimsOf(ft),
                              Counting(ShapeOf(ZDimsOf(ft))), ZAttrs)]
    IN  IF ft \in {"timeSeries", "timeSeriesProfile"}
        THEN With(core, "station_h", Var("float64", <<"station">>, <<1>>, NoAttrs))
        ELSE core

\* time_bounds and z_bounds as the standard shapes them, declared by the
\* bounds attributes of time and z
WithTimeBounds(variables, ft, values) ==
    With(With(variables, "time",
              [variables["time"] EXCEPT !.attrs = With(@, "bounds", StrV("time_bounds"))]),
         "time_bounds", Var(variables["time"].dtype, TimeBoundsDimsOf(ft), values, NoAttrs))

WithZBounds(variables, ft, values) ==
    With(With(variables, "z",
              [variables["z"] EXCEPT !.attrs = With(@, "bounds", StrV("z_bounds"))]),
         "z_bounds", Var(variables["z"].dtype, ZBoundsDimsOf(ft), values, NoAttrs))

\* the dimension sizes of a file, from its variables
DimsOf(variables) ==
    LET names == UNION {{variables[v].dims[i] : i \in 1..Len(variables[v].dims)} :
                           v \in DOMAIN variables}
        size(n) == LET v == CHOOSE w \in DOMAIN variables : InSeq(variables[w].dims, n)
                   IN  Shape(variables[v].values, Len(variables[v].dims))
                           [IndexOf(variables[v].dims, n)]
    IN  [n \in names |-> size(n)]

Dataset(attrs, variables) ==
    [attrs |-> attrs, variables |-> variables, dims |-> DimsOf(variables)]

Scenario(attrs, variables, vocabulary) ==
    [ds |-> Dataset(attrs, variables), voc |-> vocabulary]

\* a file that passes, of a feature type
BaseScenarios(ft) == {Scenario(AttrsOf(ft), BaseVars(ft), BaseVoc)}

\* files that differ from one that passes in one global attribute
GlobalAlternatives ==
    {StrV("x"), StrV(""), IntV(0), IntV(999), IntV(1000), FloatV(0), FloatV(500),
     StrV("2017-13-45 99:99:99 +00"), StrV("2017-07-26 12:00:00")}

GlobalScenarios(name) ==
    {Scenario(Without(BaseAttrs, name), BaseVars("None"), BaseVoc)}
    \cup {Scenario(With(BaseAttrs, name, x), BaseVars("None"), BaseVoc) :
            x \in GlobalAlternatives}

\* featureType, origin_z and the standard_name of z, in every combination
Absent == [t |-> "absent", s |-> "", n |-> 0]

Setting(f, k, x) == IF x = Absent THEN Without(f, k) ELSE With(f, k, x)

FeatureTypeValues ==
    {Absent, StrV("timeSeries"), StrV("timeSeriesProfile"), StrV("trajectory"),
     StrV("grid"), StrV(""), IntV(1)}

OriginZValues == {Absent, FloatV(0), FloatV(5), FloatV(-1), IntV(0), StrV("0")}

ZStandardNames ==
    {Absent, StrV("height_above_mean_sea_level"), StrV("height"), StrV(""),
     StrV("depth"), IntV(1)}

\* the feature type whose variables a file with this featureType holds
VarsFeature(ft) == IF ft.t = "str" /\ ft.s \in FeatureChoices THEN ft.s ELSE "None"

WithVarAttr(variables, varname, attrname, x) ==
    With(variables, varname,
         [variables[varname] EXCEPT !.attrs = Setting(@, attrname, x)])

OriginZScenarios(ft) ==
    {Scenario(Setting(Setting(BaseAttrs, "featureType", ft), "origin_z", oz),
              WithVarAttr(BaseVars(VarsFeature(ft)), "z", "standard_name", sn),
              BaseVoc) :
        oz \in OriginZValues, sn \in ZStandardNames}

\* sites.txt: every table of up to MaxRows rows (location, site)
Locations == {"Berlin", "Hamburg"}
Sites == {"Campus1", "Campus2"}

SiteTables ==
    UNION {[1..n -> Locations \X Sites] : n \in 0..MaxRows}

VocOfSites(table) ==
    [BaseVoc EXCEPT !.locations = [i \in 1..Len(table) |-> table[i][1]],
                    !.sites = [i \in 1..Len(table) |-> table[i][2]]]

SiteValues == {StrV(x) : x \in Sites} \cup {StrV("Campus3"), IntV(1)}
LocationValues == {StrV(x) : x \in Locations} \cup {StrV("Bonn")}

SiteScenarios(table) ==
    {Scenario(With(With(BaseAttrs, "site", site), "location", location),
              BaseVars("None"), VocOfSites(table)) :
        site \in SiteValues, location \in LocationValues}

\* institutions.txt: the table of BaseVoc, one with a repeated institution,
\* and an empty one
InstitutionTables ==
    {<<<<"Freie Universitaet Berlin", "FUBmeteo">>, <<"Deutscher Wetterdienst", "DWD">>>>,
     <<<<"Deutscher Wetterdienst", "DWD">>, <<"Deutscher Wetterdienst", "DWD2">>>>,
     <<>>}

VocOfInstitutions(table) ==
    [BaseVoc EXCEPT !.institutions = [i \in 1..Len(table) |-> table[i][1]],
                    !.acronyms = [i \in 1..Len(table) |-> table[i][2]]]

InstitutionScenarios(table) ==
    {Scenario(With(With(BaseAttrs, "institution", StrV(i)), "acronym", StrV(a)),
              BaseVars("None"), VocOfInstitutions(table)) :
        i \in {"Freie Universitaet Berlin", "Deutscher Wetterdienst", "x"},
        a \in {"FUBmeteo", "DWD", "DWD2"}}

Persons ==
    {"", "Doe", "Doe, John", "Doe, John, j@d.e", "Doe, John, not-an-email",
     "Doe, John, j@d.e;Roe", "a,b,c,d", "Doe, John;Roe, Jane, @j.x",
     "Doe, John;Roe, Jane, r@j.x"}

PersonScenarios(author) ==
    {Scenario(With(With(BaseAttrs, "author", StrV(author)), "contact_person", StrV(c)),
              BaseVars("None"), BaseVoc) :
        c \in Persons}

\* campaign codes, origin_time and the values of time
Campaigns ==
    {StrV(c) : c \in
        {"IOP03", "IOP3", "IOP00", "IOP99", "IOP01", "IOPab", "IOP-1", "IOP1_", "IOP_1",
         "IOP1a", "IOP.5", "IOP", "IOP100", "IOP1_0", "iop01", "IOPERA",
         "VALM12", "VALR01", "VALM00", "VALR99", "VALMab", "VALR-3", "VALM1", "VALM123",
         "VALM", "VALX12", "VAL", "LTO", "a b", ""}}
    \cup {IntV(5)}

OriginTimes ==
    {StrV(GoodTime), StrV("2020-02-01 00:00:00 +00"), StrV("2018-13-01 00:00:00 +00"),
     StrV("2018-00-01 00:00:00 +00"), StrV("2018-02-01 00:00:00")}

CampaignScenarios(campaign) ==
    {Scenario(With(With(BaseAttrs, "campaign", campaign), "origin_time", ot),
              With(BaseVars("None"), "time",
                   Var("float64", <<"time">>, values, TimeAttrs)),
              BaseVoc) :
        ot \in OriginTimes,
        values \in {[i \in 1..DimLen |-> 0], [i \in 1..DimLen |-> i]}}

\* variable vrs: absent, or with some dimensions and attributes
VrsDims == {<<>>, <<"z">>, <<"time", "nv">>}

VrsLongNames ==
    {Absent, StrV("vertical reference system"), StrV("vertical"), IntV(1)}

VrsScenarios(ft) ==
    {Scenario(AttrsOf(ft), Without(BaseVars(ft), "vrs"), BaseVoc)}
    \cup {Scenario(AttrsOf(ft),
                   With(BaseVars(ft), "vrs",
                        Var("int32", dims, Counting(ShapeOf(dims)),
                            Setting(Setting(Setting(VrsAttrs, "long_name", ln),
                                            "system_name", sn),
                                    "standard_name", st))),
                   BaseVoc) :
            dims \in VrsDims, ln \in VrsLongNames,
            sn \in {Absent, StrV("DHHN2016"), StrV("DHHN")},
            st \in {Absent, StrV("height")}}

\* the attributes of time: each literal, a part of it, another string, the
\* empty string, no string, or no attribute
Literals(literal, part) ==
    {StrV(literal), StrV(part), StrV(""), StrV("other"), IntV(1), Absent}

TimeAttrScenarios(ft) ==
    {Scenario(AttrsOf(ft),
              WithVarAttr(WithVarAttr(WithVarAttr(WithVarAttr(BaseVars(ft),
                  "time", "long_name", ln), "time", "standard_name", sn),
                  "time", "calendar", ca), "time", "axis", ax),
              BaseVoc) :
        ln \in Literals("time", "tim"), sn \in {StrV("time"), StrV("ime"), StrV("")},
        ca \in Literals("proleptic_gregorian", "gregorian"),
        ax \in {StrV("T"), StrV(""), StrV("t"), Absent}}

TimeUnitsScenarios(ft) ==
    {Scenario(With(AttrsOf(ft), "origin_time", ot),
              WithVarAttr(WithVarAttr(BaseVars(ft), "time", "units", un),
                          "time", "_FillValue", fv),
              BaseVoc) :
        ot \in {StrV(GoodTime), StrV("2018-02-01 00:00:00"), IntV(1)},
        un \in {StrV(GoodUnits), StrV("seconds since 2020-02-01 00:00:00 +00"),
                StrV("seconds"), IntV(1), Absent},
        fv \in {Absent, FloatV(-9999)}}

\* variable time: absent, or of some type, dimensions and values
TimeScenarios(ft) ==
    {Scenario(AttrsOf(ft), Without(BaseVars(ft), "time"), BaseVoc)}
    \cup {Scenario(AttrsOf(ft),
                   With(BaseVars(ft), "time",
                        Var(dtype, TimeDimsOf(ft), values, TimeAttrs)),
                   BaseVoc) :
            dtype \in {"float64", "int16", "float32"},
            values \in ArraysOf(ShapeOf(TimeDimsOf(ft)))}
    \cup {Scenario(AttrsOf(ft),
                   With(BaseVars(ft), "time",
                        Var("int32", dims, Counting(ShapeOf(dims)), TimeAttrs)),
                   BaseVoc) :
            dims \in {<<>>, <<"time">>, <<"ntime">>, <<"ntime", "station">>,
                      <<"traj", "ntime">>, <<"station", "ntime">>}}

\* variable time_bounds beside a time that passes: the standard's dimensions
\* with every value, and other dimensions, types and attributes
TimeBoundsScenarios(ft) ==
    {Scenario(AttrsOf(ft), WithTimeBounds(BaseVars(ft), ft, values), BaseVoc) :
        values \in ArraysOf(ShapeOf(TimeBoundsDimsOf(ft)))}
    \cup {Scenario(AttrsOf(ft),
                   With(WithVarAttr(BaseVars(ft), "time", "bounds", bn),
                        "time_bounds",
                        Var(dtype, dims, EndBounds(ShapeOf(dims)), attrs)),
                   BaseVoc) :
            bn \in {Absent, StrV("time_bounds"), StrV("bounds"), IntV(1)},
            dtype \in {"float64", "int16"},
            dims \in {TimeBoundsDimsOf(ft), <<"nv">>, <<"time", "nv">>,
                      <<"station", "ntime", "nv">>, <<"station", "ntime", "nz", "nv">>},
            attrs \in {NoAttrs, [units |-> StrV("s")]}}
    \cup {Scenario(AttrsOf(ft), WithVarAttr(BaseVars(ft), "time", "bounds", bn), BaseVoc) :
            bn \in {StrV("time_bounds"), IntV(1)}}
    \cup {Scenario(AttrsOf(ft),
                   With(Without(BaseVars(ft), "time"), "time_bounds",
                        Var("float64", TimeBoundsDimsOf(ft),
                            EndBounds(ShapeOf(TimeBoundsDimsOf(ft))), NoAttrs)),
                   BaseVoc)}

\* variable z: absent, or of some type, dimensions, values and attributes
ZScenarios(ft) ==
    {Scenario(AttrsOf(ft), Without(BaseVars(ft), "z"), BaseVoc)}
    \cup {Scenario(AttrsOf(ft),
                   With(BaseVars(ft), "z", Var(dtype, ZDimsOf(ft), values, ZAttrs)),
                   BaseVoc) :
            dtype \in {"float64", "int8"},
            values \in ArraysOf(ShapeOf(ZDimsOf(ft)))}
    \cup {Scenario(AttrsOf(ft),
                   With(BaseVars(ft), "z",
                        Var("float64", dims, Counting(ShapeOf(dims)),
                            Setting(Setting(Setting(ZAttrs, "long_name", ln),
                                            "axis", ax), "positive", po))),
                   BaseVoc) :
            dims \in {ZDimsOf(ft), <<>>, <<"z">>, <<"nz", "z">>},
            ln \in {StrV("height above origin"), StrV("height"), Absent},
            ax \in {StrV("Z"), StrV(""), IntV(1)},
            po \in {StrV("up"), StrV("down")}}

\* variable z_bounds beside a z that passes
ZBoundsScenarios(ft) ==
    {Scenario(AttrsOf(ft), WithZBounds(BaseVars(ft), ft, values), BaseVoc) :
        values \in IF ft = "timeSeriesProfile" THEN {}
                   ELSE ArraysOf(ShapeOf(ZBoundsDimsOf(ft)))}
    \cup {Scenario(AttrsOf(ft),
                   With(WithVarAttr(BaseVars(ft), "z", "bounds", bn),
                        "z_bounds",
                        Var(dtype, dims, CountingBounds(ShapeOf(dims)), attrs)),
                   BaseVoc) :
            bn \in {Absent, StrV("z_bounds"), StrV("bounds")},
            dtype \in {"float64", "int16"},
            dims \in {ZBoundsDimsOf(ft), <<"nv">>, <<"z", "nv">>, <<"traj", "ntime", "nv">>,
                      <<"traj", "z", "nv">>},
            attrs \in {NoAttrs, [units |-> StrV("m")]}}

\* variable station_h
StationHScenarios(ft) ==
    {Scenario(AttrsOf(ft), Without(BaseVars(ft), "station_h"), BaseVoc)}
    \cup {Scenario(AttrsOf(ft),
                   With(BaseVars(ft), "station_h",
                        Var(dtype, dims, Counting(ShapeOf(dims)), NoAttrs)),
                   BaseVoc) :
            dtype \in {"float64", "uint8"},
            dims \in {<<"station">>, <<"ntime">>, <<>>}}

\* a dimension nv of this size
NvScenarios(n) ==
    {Scenario(AttrsOf(ft),
              WithTimeBounds(BaseVars(ft), ft,
                  [i \in 1..1 |-> [j \in 1..DimLen |-> [k \in 1..n |-> j]]]),
              BaseVoc) :
        ft \in {"timeSeries", "trajectory"}}

\* the values of the arrays whose order is checked: small numbers, with the
\* least value of int8 for the signed and float dtypes and 0 for uint8
SortValues(dtype) ==
    IF dtype = "uint8" THEN 0..SortLen ELSE (1..SortLen) \cup {IntMin("int8")}

Ascending == [i \in 1..SortLen |-> i]
Descending == [i \in 1..SortLen |-> SortLen + 1 - i]

\* time in every order of small values; z in every order, alone along z and
\* as one profile beside a second one that rises or falls
SortScenarios(ft) ==
    {Scenario(AttrsOf(ft),
              With(BaseVars(ft), "time",
                   Var(dtype, TimeDimsOf(ft), IF ft = "None" THEN row ELSE <<row>>,
                       TimeAttrs)),
              BaseVoc) :
        dtype \in {"int32", "float64"}, row \in [1..SortLen -> 1..SortLen]}
    \cup UNION {
        IF ft = "None"
        THEN {Scenario(AttrsOf(ft),
                       With(BaseVars(ft), "z", Var(dtype, ZDimsOf(ft), row, ZAttrs)),
                       BaseVoc) :
                row \in [1..SortLen -> SortValues(dtype)]}
        ELSE IF ft = "timeSeriesProfile"
        THEN {Scenario(AttrsOf(ft),
                       With(BaseVars(ft), "z",
                            Var(dtype, ZDimsOf(ft),
                                <<[t \in 1..DimLen |-> IF t = 1 THEN row ELSE other]>>,
                                ZAttrs)),
                       BaseVoc) :
                row \in [1..SortLen -> SortValues(dtype)],
                other \in {Ascending, Descending}}
        ELSE {} :
        dtype \in {"int8", "float64", "uint8"}}

-----------------------------------------------------------------------------
(* Runs of uc2_check *)

NoCall == [recv |-> 0, arg |-> 0, self |-> CheckResultDefault, value |-> CheckResultDefault]

\* uc2_check is entered on a loaded dataset
Start(scenarios) ==
    /\ \E sc \in scenarios : ds = sc.ds /\ voc = sc.voc
    /\ numpy \in NumpyBuilds
    /\ pc = "global_attrs"
    /\ result = EmptyDict
    /\ featuretype = ""
    /\ is_iop = FALSE
    /\ is_lto = FALSE
    /\ exc = "none"
    /\ crs = <<CheckResultDefault, CheckResultDefault>>
    /\ call = NoCall
    /\ printed = <<>>

InitGlobals ==
    \/ \E name \in DOMAIN BaseAttrs : Start(GlobalScenarios(name))
    \/ \E author \in Persons : Start(PersonScenarios(author))
    \/ \E table \in InstitutionTables : Start(InstitutionScenarios(table))

InitOrigin == \E ft \in FeatureTypeValues : Start(OriginZScenarios(ft))

InitSite == \E table \in SiteTables : Start(SiteScenarios(table))

InitCampaign == \E campaign \in Campaigns : Start(CampaignScenarios(campaign))

InitVrs == \E ft \in FeatureChoices : Start(VrsScenarios(ft))

InitTimeAttrs ==
    \E ft \in {"None", "timeSeries"} :
        Start(TimeAttrScenarios(ft) \cup TimeUnitsScenarios(ft))

InitTime ==
    \/ \E ft \in FeatureChoices : Start(TimeScenarios(ft) \cup TimeBoundsScenarios(ft))
    \/ \E n \in 1..3 : Start(NvScenarios(n))

InitZ ==
    \E ft \in FeatureChoices :
        Start(ZScenarios(ft) \cup ZBoundsScenarios(ft) \cup StationHScenarios(ft))

InitSort ==
    \E ft \in {"None", "timeSeries", "timeSeriesProfile"} : Start(SortScenarios(ft))

Init ==
    \/ \E ft \in FeatureChoices : Start(BaseScenarios(ft))
    \/ InitGlobals
    \/ InitOrigin
    \/ InitSite
    \/ InitCampaign
    \/ InitVrs
    \/ InitTimeAttrs
    \/ InitTime
    \/ InitZ
    \/ InitSort

Next ==
    \/ CheckGlobalAttrs
    \/ CheckFeatureType
    \/ CheckOrigin
    \/ CheckPersons
    \/ CheckCampaign
    \/ CheckDimsVrs
    \/ CheckTime
    \/ CheckTimeBounds
    \/ CheckZ
    \/ CheckZBounds
    \/ CheckStationH

Spec == Init /\ [][Next]_vars

\* uc2_check on the files of one family
SpecOrigin == InitOrigin /\ [][Next]_vars
SpecSite == InitSite /\ [][Next]_vars
SpecCampaign == InitCampaign /\ [][Next]_vars
SpecVrs == InitVrs /\ [][Next]_vars
SpecTimeAttrs == InitTimeAttrs /\ [][Next]_vars
SpecTime == InitTime /\ [][Next]_vars
SpecSort == InitSort /\ [][Next]_vars

-----------------------------------------------------------------------------
(* CheckResult objects on their own: two objects, each constructed anew or  *)
(* merged into by append with the other as the argument                      *)

\* the (code, message) arguments objects are constructed with
Constructed ==
    {<<OK, "Test passed.">>, <<OK, "fine">>, <<WARNING, "w">>, <<ERROR, "e">>}

Objects == {1, 2}

\* crs[i] = CheckResult(code, message)
CheckResultInit ==
    /\ pc = "objects"
    /\ \E i \in Objects, cm \in Constructed :
           crs' = [crs EXCEPT ![i] = CheckResult(cm[1], cm[2])]
    /\ call' = NoCall
    /\ UNCHANGED <<ds, voc, pc, result, featuretype, is_iop, is_lto, exc, numpy, printed>>

\* crs[i].append(crs[j]) for two distinct objects; call keeps both objects
\* as they were when the call was made
CheckResultAppend ==
    /\ pc = "objects"
    /\ \E i \in Objects, j \in Objects :
           /\ i # j
           /\ Len(crs[i].result) + Len(crs[j].result) <= MaxCodes
           /\ crs' = [crs EXCEPT ![i] = append(crs[i], crs[j])]
           /\ call' = [recv |-> i, arg |-> j, self |-> crs[i], value |-> crs[j]]
    /\ UNCHANGED <<ds, voc, pc, result, featuretype, is_iop, is_lto, exc, numpy, printed>>

\* crs[i].append(crs[i]); no call with another object is the last any more
CheckResultAppendSelf ==
    /\ pc = "objects"
    /\ \E i \in Objects :
           /\ 2 * Len(PopOk(crs[i]).result) <= MaxCodes
           /\ crs' = [crs EXCEPT ![i] = append_self(crs[i])]
    /\ call' = NoCall
    /\ UNCHANGED <<ds, voc, pc, result, featuretype, is_iop, is_lto, exc, numpy, printed>>

InitResult ==
    /\ ds = Dataset(BaseAttrs, BaseVars("None"))
    /\ voc = BaseVoc
    /\ numpy = "dtype_falsy"
    /\ pc = "objects"
    /\ result = EmptyDict
    /\ featuretype = ""
    /\ is_iop = FALSE
    /\ is_lto = FALSE
    /\ exc = "none"
    /\ crs = <<CheckResultDefault, CheckResultDefault>>
    /\ call = NoCall
    /\ printed = <<>>

NextResult == CheckResultInit \/ CheckResultAppend \/ CheckResultAppendSelf

SpecResult == InitResult /\ [][NextResult]_vars

-----------------------------------------------------------------------------
(* printCheckResult, called by a user of the module on a tree of its own   *)

\* Stands for the character U+0000, which a string of this module cannot hold
NUL == "~"

\* lines 494 and 498 put two spaces before a line
Indent == "  "

\* the keys and the nesting of the trees that are printed
MaxKeys == 2
MaxDepth == 2

PrintKeys == {"k", "g", "n" \o NUL}

PrintLeaves ==
    { CheckResultDefault,
      [result |-> <<WARNING, ERROR>>, message |-> <<"w", "e " \o NUL>>] }

\* the texts that a key of the trees may have in front of a run of NUL
NulFree == {"k", "g", "n"}

\* An element read from a numpy array of dtype '<U..': numpy stores a text
\* padded with NUL up to the item size and gives it back without any NUL
\* at its end, so that a text that ends in NUL loses it
Element(s) ==
    IF \E t \in NulFree : s \in {t \o NUL, t \o NUL \o NUL}
    THEN CHOOSE t \in NulFree : s \in {t \o NUL, t \o NUL \o NUL}
    ELSE s

\* numpy.core.defchararray.add(x1, x2) with a scalar x1 and a list x2, as a
\* list: both arguments become arrays, element i is x1 + x2[i], read from
\* the arrays; the empty list gives the empty array
str_add(x1, x2) == [i \in 1..Len(x2) |-> Element(Element(x1) \o Element(x2[i]))]

\* isinstance(v, dict)
IsDict(v) == "keys" \in DOMAIN v

\* lines 497-498: the lines of one CheckResult; str() of a code is its
\* qualified name, which is how this module writes the codes
ResultLines(cr) ==
    [idx \in 1..Len(cr.result) |->
        str_add(Indent, <<cr.message[idx] \o " (" \o cr.result[idx] \o ")">>)[1]]

\* lines 489-499, the loop from the i-th key on
RECURSIVE PrintFrom(_, _)
PrintFrom(value, i) ==
    IF i > Len(value.keys) THEN <<>>
    ELSE <<value.keys[i]>>
         \o (IF IsDict(value.at[value.keys[i]])
             THEN str_add(Indent, PrintFrom(value.at[value.keys[i]], 1))
             ELSE ResultLines(value.at[value.keys[i]]))
         \o PrintFrom(value, i + 1)

printCheckResult(value) == PrintFrom(value, 1)

\* the lists of at most n distinct keys
KeyLists(n) ==
    UNION {{ks \in [1..m -> PrintKeys] : \A i, j \in 1..m : ks[i] = ks[j] => i = j} : m \in 0..n}

\* the mappings of at most n keys to these values
Mappings(vals, n) ==
    UNION {{[keys |-> ks, at |-> f] : f \in [{ks[i] : i \in 1..Len(ks)} -> vals]} : ks \in KeyLists(n)}

\* the mappings nested at most d deep that sit inside a tree: they have at
\* most one key
RECURSIVE Nested(_)
Nested(d) ==
    IF d = 0 THEN Mappings(PrintLeaves, 1)
    ELSE Mappings(PrintLeaves \cup Nested(d - 1), 1)

\* the trees: at most MaxKeys keys, nested at most MaxDepth deep
PrintTrees == Mappings(PrintLeaves \cup Nested(MaxDepth - 1), MaxKeys)

\* printed = printCheckResult(result)
PrintResult ==
    /\ pc = "print"
    /\ printed' = printCheckResult(result)
    /\ pc' = "printed"
    /\ UNCHANGED <<ds, voc, result, featuretype, is_iop, is_lto, exc, numpy, crs, call>>

InitPrint ==
    /\ ds = Dataset(BaseAttrs, BaseVars("None"))
    /\ voc = BaseVoc
    /\ numpy = "dtype_falsy"
    /\ pc = "print"
    /\ result \in PrintTrees
    /\ featuretype = ""
    /\ is_iop = FALSE
    /\ is_lto = FALSE
    /\ exc = "none"
    /\ crs = <<CheckResultDefault, CheckResultDefault>>
    /\ call = NoCall
    /\ printed = <<>>

NextPrint == PrintResult

SpecPrint == InitPrint /\ [][NextPrint]_vars

-----------------------------------------------------------------------------
(* Properties *)

Leaf(k) == result.at[k]
Leaf2(k1, k2) == result.at[k1].at[k2]

HasError(cr) == \E i \in 1..Len(cr.result) : cr.result[i] = ERROR
AllOk(cr) == \A i \in 1..Len(cr.result) : cr.result[i] = OK

\* the global attribute is present with a value of this type
GlobalIs(name, t) == name \in DOMAIN ds.attrs /\ ds.attrs[name].t = t

\* the variable's attribute is present with a string value
VarAttrIsStr(varname, attrname) ==
    /\ varname \in DOMAIN ds.variables
    /\ attrname \in DOMAIN ds.variables[varname].attrs
    /\ ds.variables[varname].attrs[attrname].t = "str"

\* C1: uc2_check never raises: it ends by returning the result tree
C1_NeverRaises == pc # "raised"

\* a CheckResult as its sequence of (code, message) pairs
Pairs(cr) == [i \in 1..Len(cr.result) |-> <<cr.result[i], cr.message[i]>>]

\* the pairs of a CheckResult whose code is not OK, in their order
NonOkPairs(cr) ==
    LET idx == NonOkIdx(cr.result)
    IN  [i \in 1..Len(idx) |-> <<cr.result[idx[i]], cr.message[idx[i]]>>]

\* C2: appending a CheckResult whose codes are all OK leaves the receiver's
\* code list and message list as they were
C2_AllOkArgumentIsNoOp ==
    (call.recv # 0 /\ AllOk(call.value)) => crs[call.recv] = call.self

ValidFeatureType ==
    /\ GlobalIs("featureType", "str")
    /\ ds.attrs["featureType"].s \in {"timeSeries", "timeSeriesProfile", "trajectory"}

\* C4: with a valid featureType and a float origin_z, result["origin_z"] is
\* ERROR when origin_z is not 0 and OK when it is 0; without featureType any
\* float origin_z is OK
C4_OriginZMustBeZero ==
    (Has(result, "origin_z") /\ GlobalIs("origin_z", "float")) =>
        /\ (ValidFeatureType /\ ds.attrs["origin_z"].n # 0) => HasError(Leaf("origin_z"))
        /\ (ValidFeatureType /\ ds.attrs["origin_z"].n = 0) => AllOk(Leaf("origin_z"))
        /\ "featureType" \notin DOMAIN ds.attrs => AllOk(Leaf("origin_z"))

\* C5: with variable z and a passed origin_z check, result["z"]["standard_name"]
\* is produced; for origin_z = 0 it is OK exactly when z has the standard_name
\* "height_above_mean_sea_level" and ERROR otherwise; for another origin_z it
\* is OK when z has no standard_name and ERROR when it has one
C5_ZStandardName ==
    LET attrs == ds.variables["z"].attrs
        present == "standard_name" \in DOMAIN attrs
        r == Leaf2("z", "standard_name")
    IN  (/\ Has(result, "z")
         /\ Has(Leaf("z"), "positive")
         /\ "z" \in DOMAIN ds.variables
         /\ Bool(Leaf("origin_z"))) =>
            /\ Has(Leaf("z"), "standard_name")
            /\ IF ds.attrs["origin_z"].n = 0
               THEN IF present /\ attrs["standard_name"] = StrV("height_above_mean_sea_level")
                    THEN AllOk(r)
                    ELSE HasError(r)
               ELSE IF present THEN HasError(r) ELSE AllOk(r)

\* the second column of time_bounds' first record, and time's first record
\* (the whole of a time and time_bounds without a leading dimension)
FirstRecord(var, leading) == IF Len(var.dims) > leading THEN var.values[1] ELSE var.values

BoundsColumnIsTime ==
    LET t == FirstRecord(ds.variables["time"], 1)
        b == FirstRecord(ds.variables["time_bounds"], 2)
    IN  /\ Len(b) = Len(t)
        /\ \A j \in 1..Len(t) : b[j][2] = t[j]

\* C6: for every feature type, the absent one included: with time_bounds in
\* the dimensions of the template and of time's type, and a passed check of
\* variable time, result["time_bounds"]["variable"] is produced, and is OK
\* when the second bounds column equals time, ERROR when a position differs
C6_TimeBoundsAgainstTime ==
    (/\ Has(result, "time_bounds")
     /\ Has(result, "time") /\ Has(Leaf("time"), "bounds")
     /\ Has(Leaf("time"), "variable") /\ Bool(Leaf2("time", "variable"))
     /\ "time_bounds" \in DOMAIN ds.variables
     /\ ds.variables["time_bounds"].dims = TimeBoundsDimsOf(featuretype)
     /\ ds.variables["time_bounds"].dtype = ds.variables["time"].dtype) =>
        /\ Has(Leaf("time_bounds"), "variable")
        /\ IF BoundsColumnIsTime
           THEN AllOk(Leaf2("time_bounds", "variable"))
           ELSE HasError(Leaf2("time_bounds", "variable"))

\* the literal each of these attributes of time must hold
TimeLiterals ==
    [long_name |-> "time", standard_name |-> "time",
     calendar |-> "proleptic_gregorian", axis |-> "T"]

\* C7: long_name, standard_name, calendar and axis of time, present with a
\* string: the result is OK exactly when the string is the literal, and ERROR
\* for every other string
C7_TimeAttributesEqualLiteral ==
    \A a \in DOMAIN TimeLiterals :
        (Has(result, "time") /\ Has(Leaf("time"), a) /\ VarAttrIsStr("time", a)) =>
            IF ds.variables["time"].attrs[a].s = TimeLiterals[a]
            THEN AllOk(Leaf2("time", a))
            ELSE HasError(Leaf2("time", a))

\* C8: a vrs with one or more dimensions has an ERROR in
\* result["vrs"]["variable"], a vrs without dimensions is OK
C8_VrsHasNoDimensions ==
    (/\ Has(result, "vrs") /\ Has(Leaf("vrs"), "variable")
     /\ "vrs" \in DOMAIN ds.variables) =>
        IF Len(ds.variables["vrs"].dims) > 0
        THEN HasError(Leaf2("vrs", "variable"))
        ELSE AllOk(Leaf2("vrs", "variable"))

\* the first place of x in a list that holds it, counted from 1
FirstPlace(list, x) ==
    CHOOSE i \in 1..Len(list) : list[i] = x /\ \A j \in 1..(i - 1) : list[j] # x

\* site and location are strings of their vocabulary lists, and the
\* cross-check of uc2_check is over
SiteAndLocationKnown ==
    /\ pc \notin {"global_attrs", "feature_type", "origin"}
    /\ Has(result, "site") /\ Has(result, "location")
    /\ GlobalIs("site", "str") /\ InSeq(voc.sites, ds.attrs["site"].s)
    /\ GlobalIs("location", "str") /\ InSeq(voc.locations, ds.attrs["location"].s)

SiteMessage ==
    "site '" \o ds.attrs["site"].s \o "' does not match location '"
    \o ds.attrs["location"].s \o "'"

BothFlagged ==
    /\ Leaf("site") = CheckResult(ERROR, SiteMessage)
    /\ Leaf("location") = CheckResult(ERROR, SiteMessage)

BothOk == AllOk(Leaf("site")) /\ AllOk(Leaf("location"))

TwoDigitNumber(s) ==
    LET rest == SliceFrom(s, Len(s) - 2)
    IN  /\ Len(s) >= 2
        /\ CharAt(rest, 0) \in Digits /\ CharAt(rest, 1) \in Digits
        /\ DecVal(rest) \in 1..99

\* C10: a campaign that matches the regular expression: with the prefix IOP
\* it is OK exactly when it has 5 characters ending in a number from 1 to 99,
\* with VALR or VALM exactly when it has 6 characters ending in such a
\* number, and ERROR otherwise; with another prefix it is OK, and is_iop and
\* is_lto stay unset
C10_CampaignCode ==
    LET c == ds.attrs["campaign"].s
        r == Leaf("campaign")
        good(n) == Len(c) = n /\ TwoDigitNumber(c)
    IN  (/\ pc \notin {"global_attrs", "feature_type", "origin", "persons", "campaign"}
         /\ Has(result, "campaign")
         /\ GlobalIs("campaign", "str") /\ MatchCampaign(c)) =>
            IF Slice(c, 0, 3) = "IOP"
            THEN IF good(5) THEN AllOk(r) ELSE HasError(r)
            ELSE IF Slice(c, 0, 4) \in {"VALR", "VALM"}
            THEN IF good(6) THEN AllOk(r) ELSE HasError(r)
            ELSE AllOk(r) /\ ~is_iop /\ ~is_lto

-----------------------------------------------------------------------------
\* the keys of the global attributes checked before featureType, in order
GlobalNames ==
    <<"title", "data_content", "source", "version", "Conventions", "dependencies",
      "history", "references", "comment", "keywords", "licence", "creation_time",
      "origin_time", "origin_lon", "origin_lat", "origin_x", "origin_y",
      "rotation_angle">>

\* the keys every complete run of uc2_check assigns after featureType
LaterKeys ==
    {"origin_z", "location", "site", "institution", "acronym", "author",
     "contact_person", "campaign", "vrs", "time", "time_bounds", "z", "z_bounds"}

\* featureType is present and fails its check
InvalidFeatureType == "featureType" \in DOMAIN ds.attrs /\ ~ValidFeatureType

-----------------------------------------------------------------------------
NonDecreasing(f) == \A i \in 1..(Len(f) - 1) : f[i] <= f[i + 1]
NonIncreasing(f) == \A i \in 1..(Len(f) - 1) : f[i] >= f[i + 1]

\* a variable's values rise, or fall, along every run of one of its dimensions
RisesAlong(var, dim) ==
    \A f \in Fibers(var.values, Len(var.dims), IndexOf(var.dims, dim)) : NonDecreasing(f)

FallsAlong(var, dim) ==
    \A f \in Fibers(var.values, Len(var.dims), IndexOf(var.dims, dim)) : NonIncreasing(f)

\* the sort ERROR of a variable is among the messages of its result
SortError(varname, dim) ==
    \E i \in 1..Len(Leaf2(varname, "variable").message) :
        Leaf2(varname, "variable").message[i]
            = "Variable '" \o varname \o "' must be sorted along dimension '"
              \o dim \o "'"

\* the dimension uc2_check asks a variable to be sorted along, "" for none
SortedAlong(varname) ==
    IF varname = "time" THEN TimeTemplate(featuretype).time_dim_name
    ELSE ZTemplate(featuretype).must_be_sorted_along

\* a variable was checked and has the dimension it is to be sorted along
SortChecked(varname) ==
    /\ Has(result, varname)
    /\ varname \in DOMAIN ds.variables
    /\ InSeq(ds.variables[varname].dims, SortedAlong(varname))

\* C12: a checked variable that has the dimension it is to be sorted along gets
\* no sort ERROR exactly when its values are non-decreasing along that
\* dimension or, for z (decrease_sort_allowed), non-increasing along it; for
\* time a falling order is an ERROR
C12_SortCheck ==
    /\ SortChecked("time") =>
          (~SortError("time", SortedAlong("time"))
              <=> RisesAlong(ds.variables["time"], SortedAlong("time")))
    /\ SortChecked("z") =>
          (~SortError("z", SortedAlong("z"))
              <=> \/ RisesAlong(ds.variables["z"], SortedAlong("z"))
                  \/ FallsAlong(ds.variables["z"], SortedAlong("z")))

\* What the description of printCheckResult asks for: per key in order the
\* key, then per pair of a CheckResult the message and the code in
\* parentheses behind two spaces, or the lines of the nested mapping, each
\* behind two more spaces
RECURSIVE RenderFrom(_, _)
RenderFrom(tree, i) ==
    IF i > Len(tree.keys) THEN <<>>
    ELSE <<tree.keys[i]>>
         \o (IF IsDict(tree.at[tree.keys[i]])
             THEN [n \in 1..Len(RenderFrom(tree.at[tree.keys[i]], 1)) |->
                      "  " \o RenderFrom(tree.at[tree.keys[i]], 1)[n]]
             ELSE [n \in 1..Len(tree.at[tree.keys[i]].result) |->
                      "  " \o tree.at[tree.keys[i]].message[n]
                           \o " (" \o tree.at[tree.keys[i]].result[n] \o ")"])
         \o RenderFrom(tree, i + 1)

\* the number of keys of a tree, at every level
RECURSIVE CountKeys(_, _)
CountKeys(tree, i) ==
    IF i > Len(tree.keys) THEN 0
    ELSE 1 + (IF IsDict(tree.at[tree.keys[i]]) THEN CountKeys(tree.at[tree.keys[i]], 1) ELSE 0)
           + CountKeys(tree, i + 1)

\* the number of (code, message) pairs of a tree, at every level
RECURSIVE CountPairs(_, _)
CountPairs(tree, i) ==
    IF i > Len(tree.keys) THEN 0
    ELSE (IF IsDict(tree.at[tree.keys[i]]) THEN CountPairs(tree.at[tree.keys[i]], 1)
          ELSE Len(tree.at[tree.keys[i]].result))
         + CountPairs(tree, i + 1)

\* no key of the tree, at any level, ends in NUL
RECURSIVE NoNulKey(_)
NoNulKey(tree) ==
    \A i \in 1..Len(tree.keys) :
        /\ tree.keys[i] \in NulFree
        /\ IsDict(tree.at[tree.keys[i]]) => NoNulKey(tree.at[tree.keys[i]])

\* C13: printCheckResult returns, for every tree, per key in mapping order
\* one line with the key, followed for a CheckResult by one line per (code,
\* message) pair (two spaces, the message, the code in parentheses) and for
\* a nested mapping by its own rendering with two more spaces before each
\* line; there is one line per key and one per pair.
C13_PrintCheckResult ==
    pc = "printed" =>
        /\ printed = RenderFrom(result, 1)
        /\ Len(printed) = CountKeys(result, 1) + CountPairs(result, 1)

\* the same for the trees none of whose keys ends in NUL
PrintNulFree ==
    (pc = "printed" /\ NoNulKey(result)) =>
        /\ printed = RenderFrom(result, 1)
        /\ Len(printed) = CountKeys(result, 1) + CountPairs(result, 1)

\* a nested mapping with a key and an empty one have been printed
PrintedNested ==
    /\ pc = "printed"
    /\ NoNulKey(result)
    /\ \E i \in 1..Len(result.keys) :
           /\ IsDict(result.at[result.keys[i]])
           /\ result.at[result.keys[i]].keys # <<>>
    /\ \E i \in 1..Len(result.keys) :
           /\ IsDict(result.at[result.keys[i]])
           /\ result.at[result.keys[i]].keys = <<>>

\* the positions of uc2_check from the first selection by featuretype on
AfterFeatureType ==
    {"origin", "persons", "campaign", "dims_vrs", "time", "time_bounds", "z", "z_bounds",
     "station_h"}

\* C14: the 'Unexpected featureType' exceptions of the two selections by
\* featuretype (lines 202 and 264) are never raised: wherever uc2_check is
\* past the check of featureType, featuretype is "None" or one of the three
\* allowed values.
C14_NoUnexpectedFeatureType ==
    /\ exc # "Exception"
    /\ pc \in AfterFeatureType =>
          \/ featuretype = "None" /\ "featureType" \notin DOMAIN ds.attrs
          \/ InSeq(FeatureTypes, featuretype) /\ ds.attrs["featureType"].s = featuretype

\* both selections have been passed for a trajectory
C14_TrajectorySelected ==
    /\ pc = "done"
    /\ featuretype = "trajectory"
    /\ Has(result, "time")
    /\ Has(result, "z")

\* the object is what the description of CheckResult says it is: as many
\* messages as codes, and at least one
WellFormed(cr) == Len(cr.result) = Len(cr.message) /\ Len(cr.result) >= 1

\* a step of append, whatever the argument
AppendStep == CheckResultAppend \/ CheckResultAppendSelf

\* C15: after construction and after every append, whatever CheckResult is
\* the argument, an object has as many messages as codes and at least one;
\* it is false exactly when ERROR is among its codes, so not for WARNING
\* alone; and an append never takes the last ERROR out of an object.
C15_CheckResultInvariant ==
    /\ [](pc = "objects" =>
            \A i \in Objects :
                /\ WellFormed(crs[i])
                /\ ~Bool(crs[i]) <=> InSeq(crs[i].result, ERROR))
    /\ [][AppendStep => \A i \in Objects : HasError(crs[i]) => ~Bool(crs'[i])]_vars

\* the part of C15 about what is in an object, as a predicate of the state
WellFormedObjects ==
    pc = "objects" => \A i \in Objects : WellFormed(crs[i])

====
